---- MODULE Spec2Model ----
(***************************************************************************)
(* State-machine model of the libzip archive change set: the entry table,  *)
(* the name index (zip_hash.c), the open path (zip_open.c) and the         *)
(* mutators built on _libzip_file_replace and _libzip_set_name.            *)
(***************************************************************************)
EXTENDS Integers, Sequences, FiniteSets, TLC

(* ---------------- bounds ---------------- *)
MaxHdrs == 2
MaxSrc == 2

(* ---------------- program constants ---------------- *)
LIBZIP_CHECKCONS == 4
LIBZIP_RDONLY == 16
LIBZIP_FL_UNCHANGED == 8
LIBZIP_FL_OVERWRITE == 8192
LIBZIP_AFL_RDONLY == 2

LIBZIP_ER_OK == 0
LIBZIP_ER_NOENT == 9
LIBZIP_ER_EXISTS == 10
LIBZIP_ER_MEMORY == 14
LIBZIP_ER_CHANGED == 15
LIBZIP_ER_COMPNOTSUPP == 16
LIBZIP_ER_INVAL == 18
LIBZIP_ER_NOZIP == 19
LIBZIP_ER_INTERNAL == 20
LIBZIP_ER_INCONS == 21
LIBZIP_ER_DELETED == 23
LIBZIP_ER_RDONLY == 25

LIBZIP_CM_DEFAULT == -1
LIBZIP_CM_STORE == 0
LIBZIP_CM_DEFLATE == 8
LIBZIP_CM_REPLACED_DEFAULT == -2

LIBZIP_DIRENT_COMP_METHOD == 1
LIBZIP_DIRENT_FILENAME == 2
LIBZIP_DIRENT_COMMENT == 4
LIBZIP_DIRENT_EXTRA_FIELD == 8
LIBZIP_DIRENT_LAST_MOD == 32

CDENTRYSIZE == 46
LENTRYSIZE == 30
EOCDLEN == 22
CDIR_GROW_STEP == 65536
LIBZIP_ER_DETAIL_CDIR_OVERLAPS_EOCD == 1
LIBZIP_ER_DETAIL_CDIR_LENGTH_INVALID == 3
LIBZIP_ER_DETAIL_CDIR_ENTRY_INVALID == 4
LIBZIP_ER_DETAIL_CDIR_WRONG_ENTRIES_COUNT == 5
LIBZIP_ER_DETAIL_VARIABLE_SIZE_OVERFLOW == 12

(* ---------------- value domains ---------------- *)
\* names a caller passes to file_add / file_rename / fopen
Names == {"a", "b", "c"}
\* names stored in the central directory of the archives that are opened
FileNames == {"a", "b"}
\* ids of the data sources the application has created
SrcIds == 1..MaxSrc
\* bytes between the last central header and the EOCD record
GapBytes == {0, 4}
\* simulated allocation failures
OomPoints == {"none", "clone", "hash", "replace", "ef"}

\* binds the value v to the parameter of F: v is computed once
Let(v, F(_)) == CHOOSE r \in {F(x) : x \in {v}} : TRUE

\* NULL pointers
NoDirent == [null |-> TRUE]
NoSource == 0
NoIndex == -1

(* ---------------- zip_string.c ---------------- *)
\* a libzip_string_t is its byte string; NULL is the empty string "" because
\* _libzip_string_new returns NULL for length 0
_libzip_string_equal(a, b) == a = b

_libzip_string_get(s) == s

(* ---------------- zip_hash.c ---------------- *)
\* the table is a function name -> [orig_index, current_index]
EmptyHash == [n \in {} |-> [orig_index |-> NoIndex, current_index |-> NoIndex]]

HashPut(hash, name, node) == [n \in (DOMAIN hash) \cup {name} |-> IF n = name THEN node ELSE hash[n]]

HashRemove(hash, name) == [n \in (DOMAIN hash) \ {name} |-> hash[n]]

_libzip_hash_add(hash, name, index, flags, oom) ==
    LET found == name \in DOMAIN hash
        old == IF found THEN hash[name] ELSE [orig_index |-> NoIndex, current_index |-> NoIndex]
        new == [orig_index |-> IF LIBZIP_FL_UNCHANGED \in flags THEN index ELSE old.orig_index,
                current_index |-> index]
    IN  IF found /\ ((LIBZIP_FL_UNCHANGED \in flags /\ old.orig_index # NoIndex) \/ old.current_index # NoIndex)
        THEN [ok |-> FALSE, err |-> LIBZIP_ER_EXISTS, hash |-> hash]
        ELSE IF ~found /\ oom
        THEN [ok |-> FALSE, err |-> LIBZIP_ER_MEMORY, hash |-> hash]
        ELSE [ok |-> TRUE, err |-> LIBZIP_ER_OK, hash |-> HashPut(hash, name, new)]

\* a variant that removes the node whatever its original index is
_libzip_hash_delete_any(hash, name) ==
    IF name \notin DOMAIN hash
    THEN [ok |-> FALSE, err |-> LIBZIP_ER_NOENT, hash |-> hash]
    ELSE [ok |-> TRUE, err |-> LIBZIP_ER_OK, hash |-> HashRemove(hash, name)]

_libzip_hash_delete(hash, name) ==
    IF name \notin DOMAIN hash
    THEN [ok |-> FALSE, err |-> LIBZIP_ER_NOENT, hash |-> hash]
    ELSE IF hash[name].orig_index = NoIndex
    THEN [ok |-> TRUE, err |-> LIBZIP_ER_OK, hash |-> HashRemove(hash, name)]
    ELSE [ok |-> TRUE, err |-> LIBZIP_ER_OK,
          hash |-> [hash EXCEPT ![name].current_index = NoIndex]]

\* returns the index, or -1 with LIBZIP_ER_NOENT
_libzip_hash_lookup(hash, name, flags) ==
    IF name \notin DOMAIN hash THEN NoIndex
    ELSE IF LIBZIP_FL_UNCHANGED \in flags
    THEN hash[name].orig_index
    ELSE hash[name].current_index

(* ---------------- zip_name_locate.c ---------------- *)
\* only the flags UNCHANGED / OVERWRITE occur, so the hash path is taken
_libzip_name_locate(hash, fname, flags) == _libzip_hash_lookup(hash, fname, flags)

(* ---------------- zip_dirent.c ---------------- *)
_libzip_dirent_init ==
    [filename |-> "", comp_method |-> LIBZIP_CM_DEFAULT, last_mod |-> 0,
     comment |-> "", extra_fields |-> <<>>, offset |-> 0, changed |-> {}, cloned |-> FALSE]

_libzip_dirent_clone(sde) ==
    IF sde = NoDirent
    THEN [_libzip_dirent_init EXCEPT !.cloned = TRUE]
    ELSE [sde EXCEPT !.changed = {}, !.cloned = TRUE]

\* result: [de, err]; de = NoDirent on error
_libzip_get_dirent(entry, idx, flags) ==
    IF idx >= Len(entry) THEN [de |-> NoDirent, err |-> LIBZIP_ER_INVAL]
    ELSE IF LIBZIP_FL_UNCHANGED \in flags \/ entry[idx + 1].changes = NoDirent
    THEN IF entry[idx + 1].orig = NoDirent THEN [de |-> NoDirent, err |-> LIBZIP_ER_INVAL]
         ELSE IF entry[idx + 1].deleted /\ LIBZIP_FL_UNCHANGED \notin flags
         THEN [de |-> NoDirent, err |-> LIBZIP_ER_DELETED]
         ELSE [de |-> entry[idx + 1].orig, err |-> LIBZIP_ER_OK]
    ELSE [de |-> entry[idx + 1].changes, err |-> LIBZIP_ER_OK]

(* ---------------- entries (zipint.h struct libzip_entry) ---------------- *)
NewEntry == [orig |-> NoDirent, changes |-> NoDirent, source |-> NoSource, deleted |-> FALSE]

LIBZIP_ENTRY_DATA_CHANGED(e) == e.source # NoSource

LIBZIP_ENTRY_CHANGED(e, f) == e.changes # NoDirent /\ f \in e.changes.changed

\* appends a fresh entry; its index is the old nentry
_libzip_add_entry(entry) == Append(entry, NewEntry)

\* frees the replacement data of an entry and withdraws the pending
\* "recompress with default method" mark and the deletion mark;
\* result: [e, freed] with the set of sources released
_libzip_unchange_data(e) ==
    [e |-> [e EXCEPT !.source = NoSource,
                     !.changes = IF e.changes # NoDirent
                                    /\ LIBZIP_DIRENT_COMP_METHOD \in e.changes.changed
                                    /\ e.changes.comp_method = LIBZIP_CM_REPLACED_DEFAULT
                                 THEN IF e.changes.changed = {LIBZIP_DIRENT_COMP_METHOD} THEN NoDirent
                                      ELSE [e.changes EXCEPT !.changed = @ \ {LIBZIP_DIRENT_COMP_METHOD}]
                                 ELSE e.changes,
                     !.deleted = FALSE],
     freed |-> IF e.source # NoSource THEN {e.source} ELSE {}]

\* current name of entry idx; result: [name, err]
_libzip_get_name(entry, idx, flags) ==
    Let(_libzip_get_dirent(entry, idx, flags), LAMBDA d :
        IF d.de = NoDirent THEN [name |-> "", err |-> d.err]
        ELSE [name |-> _libzip_string_get(d.de.filename), err |-> LIBZIP_ER_OK])

(* ---------------- zip_set_name.c ---------------- *)
SetNameResult(ret, err, entry, names) == [ret |-> ret, err |-> err, entry |-> entry, names |-> names]

\* the entry after the name index was updated (zip_set_name.c, the last if/else)
SetNameEntry(e1, str, same_as_orig) ==
    IF same_as_orig
    THEN IF e1.changes # NoDirent /\ LIBZIP_DIRENT_FILENAME \in e1.changes.changed
         THEN IF e1.changes.changed = {LIBZIP_DIRENT_FILENAME}
              THEN [e1 EXCEPT !.changes = NoDirent]
              ELSE [e1 EXCEPT !.changes.changed = @ \ {LIBZIP_DIRENT_FILENAME},
                              !.changes.filename = e1.orig.filename]
         ELSE e1
    ELSE [e1 EXCEPT !.changes.changed = @ \cup {LIBZIP_DIRENT_FILENAME},
                    !.changes.filename = str]

\* result: [ret, err, entry, names]
_libzip_set_name(entry, names, rdonly, idx, name, oom) ==
    IF idx >= Len(entry) THEN SetNameResult(-1, LIBZIP_ER_INVAL, entry, names)
    ELSE IF rdonly THEN SetNameResult(-1, LIBZIP_ER_RDONLY, entry, names)
    ELSE
    Let(name, LAMBDA str :
    Let(_libzip_name_locate(names, name, {}), LAMBDA i :
    Let(entry[idx + 1], LAMBDA e :
        IF i >= 0 /\ i # idx THEN SetNameResult(-1, LIBZIP_ER_EXISTS, entry, names)
        ELSE IF i >= 0 /\ i = idx THEN SetNameResult(0, LIBZIP_ER_OK, entry, names)
        ELSE
        Let(IF e.orig # NoDirent THEN _libzip_string_equal(e.orig.filename, str) ELSE FALSE,
            LAMBDA same_as_orig :
            IF ~same_as_orig /\ e.changes = NoDirent /\ oom = "clone"
            THEN SetNameResult(-1, LIBZIP_ER_MEMORY, entry, names)
            ELSE
            Let(IF ~same_as_orig /\ e.changes = NoDirent
                THEN [e EXCEPT !.changes = _libzip_dirent_clone(e.orig)] ELSE e, LAMBDA e1 :
            Let(_libzip_string_get(IF same_as_orig THEN e.orig.filename ELSE str), LAMBDA new_name :
            Let(IF e1.changes # NoDirent THEN e1.changes.filename
                ELSE IF e1.orig # NoDirent THEN e1.orig.filename
                ELSE "", LAMBDA old_str :
            Let(_libzip_hash_add(names, new_name, idx, {}, oom = "hash"), LAMBDA h1 :
                IF ~h1.ok
                THEN SetNameResult(-1, h1.err, [entry EXCEPT ![idx + 1] = e1], names)
                ELSE SetNameResult(0, LIBZIP_ER_OK,
                         [entry EXCEPT ![idx + 1] = SetNameEntry(e1, str, same_as_orig)],
                         IF old_str # ""
                         THEN _libzip_hash_delete(h1.hash, _libzip_string_get(old_str)).hash
                         ELSE h1.hash)))))))))

(* ---------------- zip_file_replace.c ---------------- *)
ReplaceResult(ret, err, entry, names, freed) ==
    [ret |-> ret, err |-> err, entry |-> entry, names |-> names, freed |-> freed]

\* a variant that stores the source and leaves the compression method alone
ReplaceEntry_unmarked(e, source) == [e EXCEPT !.source = source]

\* the entry with the source attached (zip_file_replace.c, after _libzip_unchange_data)
ReplaceEntry(e, source) ==
    IF e.orig # NoDirent /\ (e.changes = NoDirent \/ LIBZIP_DIRENT_COMP_METHOD \notin e.changes.changed)
    THEN Let(IF e.changes = NoDirent THEN _libzip_dirent_clone(e.orig) ELSE e.changes, LAMBDA ch :
             [e EXCEPT !.changes = [ch EXCEPT !.comp_method = LIBZIP_CM_REPLACED_DEFAULT,
                                              !.changed = @ \cup {LIBZIP_DIRENT_COMP_METHOD}],
                       !.source = source])
    ELSE [e EXCEPT !.source = source]

\* a variant that stores the source in the entry before the clone that can fail
AttachSource_before_clone(entry, names, idx, source, oom) ==
    Let(_libzip_unchange_data(entry[idx + 1]), LAMBDA ud :
        IF ud.e.orig # NoDirent /\ ud.e.changes = NoDirent /\ oom = "replace"
        THEN ReplaceResult(-1, LIBZIP_ER_MEMORY,
                 [entry EXCEPT ![idx + 1] = [ud.e EXCEPT !.source = source]], names, ud.freed)
        ELSE ReplaceResult(idx, LIBZIP_ER_OK,
                 [entry EXCEPT ![idx + 1] = ReplaceEntry(ud.e, source)], names, ud.freed))

\* the tail of _libzip_file_replace: drop the old data change, mark the
\* compression method as replaced, store the source
AttachSource(entry, names, idx, source, oom) ==
    Let(_libzip_unchange_data(entry[idx + 1]), LAMBDA ud :
        IF ud.e.orig # NoDirent /\ ud.e.changes = NoDirent /\ oom = "replace"
        THEN ReplaceResult(-1, LIBZIP_ER_MEMORY, [entry EXCEPT ![idx + 1] = ud.e], names, ud.freed)
        ELSE ReplaceResult(idx, LIBZIP_ER_OK,
                 [entry EXCEPT ![idx + 1] = ReplaceEntry(ud.e, source)], names, ud.freed))

\* a variant that keeps the entry made for a failed add
RestoreNentry_kept(entry, za_nentry_prev) == entry

\* after a failed _libzip_set_name: the entry made by _libzip_add_entry is finalized and dropped
RestoreNentry(entry, za_nentry_prev) ==
    IF Len(entry) # za_nentry_prev THEN SubSeq(entry, 1, za_nentry_prev) ELSE entry

\* idx0 = NoIndex stands for LIBZIP_UINT64_MAX (add), name = "" for NULL;
\* result: [ret, err, entry, names, freed]
_libzip_file_replace(entry, names, rdonly, idx0, name, source, flags, oom) ==
    IF rdonly THEN ReplaceResult(-1, LIBZIP_ER_RDONLY, entry, names, {})
    ELSE
    Let(Len(entry), LAMBDA za_nentry_prev :
    Let(IF idx0 = NoIndex /\ LIBZIP_FL_OVERWRITE \in flags
        THEN _libzip_name_locate(names, name, flags) ELSE NoIndex, LAMBDA i :
    Let(IF idx0 = NoIndex /\ i = NoIndex THEN _libzip_add_entry(entry) ELSE entry, LAMBDA entry1 :
    Let(IF idx0 # NoIndex THEN idx0 ELSE IF i # NoIndex THEN i ELSE za_nentry_prev, LAMBDA idx :
    Let(IF name # "" THEN _libzip_set_name(entry1, names, rdonly, idx, name, oom)
        ELSE SetNameResult(0, LIBZIP_ER_OK, entry1, names), LAMBDA sn :
        IF sn.ret # 0
        THEN ReplaceResult(-1, sn.err,
                 RestoreNentry(sn.entry, za_nentry_prev),
                 sn.names, {})
        ELSE
        AttachSource(sn.entry, sn.names, idx, source, oom))))))

(* ---------------- archive files ---------------- *)
\* An archive file is its central headers (their names), the bytes between
\* the last header and the EOCD record, and the EOCD fields nentry and size;
\* the EOCD offset field is the true start of the central directory.
RECURSIVE SeqsUpTo(_, _)
SeqsUpTo(S, n) ==
    IF n = 0 THEN {<<>>}
    ELSE SeqsUpTo(S, n - 1) \cup {Append(q, x) : q \in {r \in SeqsUpTo(S, n - 1) : Len(r) = n - 1}, x \in S}

HdrSize(name) == CDENTRYSIZE + Len(name)

RECURSIVE HdrStart(_, _)
\* byte position of header k (1-based) inside the central directory;
\* k = Len(hdrs) + 1 gives the length of all headers
HdrStart(hdrs, k) == IF k = 1 THEN 0 ELSE HdrStart(hdrs, k - 1) + HdrSize(hdrs[k - 1])

CdBytes(hdrs) == HdrStart(hdrs, Len(hdrs) + 1)

EocdSizes(hdrs, gap) ==
    {HdrStart(hdrs, k) : k \in 1..(Len(hdrs) + 1)}
    \cup {HdrStart(hdrs, k + 1) - 1 : k \in 1..Len(hdrs)}
    \cup {CdBytes(hdrs) + gap, CdBytes(hdrs) + gap + CDENTRYSIZE}

\* header lists up to renaming of the names: the first header is "a"
HdrSeqs == {h \in SeqsUpTo(FileNames, MaxHdrs) : h = <<>> \/ h[1] = "a"}

Files ==
    UNION {{[hdrs |-> h, gap |-> g, nentry |-> n, size |-> sz] :
              n \in 0..MaxHdrs, sz \in EocdSizes(h, g)} :
           h \in HdrSeqs, g \in GapBytes}

\* archive offset of the central directory: one local entry per header
CdOffset(file) == Len(file.hdrs) * LENTRYSIZE

EocdOffset(file) == CdOffset(file) + CdBytes(file.hdrs) + file.gap

OrigDirent(file, k) ==
    [_libzip_dirent_init EXCEPT !.filename = file.hdrs[k], !.comp_method = LIBZIP_CM_STORE, !.offset = k]

(* ---------------- zip_open.c / zip_dirent.c: reading the directory ---------------- *)
MAKE_DETAIL_WITH_INDEX(error, index) == index * 256 + error

\* result: [cd, err, detail]; cd.valid = FALSE on error
_libzip_read_eocd(file, buf_offset, flags) ==
    LET eocd_offset == EocdOffset(file) - buf_offset
        offset == CdOffset(file)
        size == file.size
        bad(detail) == [cd |-> [valid |-> FALSE], err |-> LIBZIP_ER_INCONS, detail |-> detail]
    IN  IF offset + size > buf_offset + eocd_offset
        THEN bad(LIBZIP_ER_DETAIL_CDIR_OVERLAPS_EOCD)
        ELSE IF LIBZIP_CHECKCONS \in flags /\ offset + size # buf_offset + eocd_offset
        THEN bad(LIBZIP_ER_DETAIL_CDIR_LENGTH_INVALID)
        ELSE [cd |-> [valid |-> TRUE, nentry |-> file.nentry, nentry_alloc |-> file.nentry,
                      size |-> size, offset |-> offset, is_zip64 |-> FALSE],
              err |-> LIBZIP_ER_OK, detail |-> 0]

\* a variant that makes room for one more entry whatever step is asked for
_libzip_cdir_grow_by_one(cd, additional_entries) ==
    [cd EXCEPT !.nentry = cd.nentry_alloc + 1, !.nentry_alloc = cd.nentry_alloc + 1]

_libzip_cdir_grow(cd, additional_entries) ==
    [cd EXCEPT !.nentry = cd.nentry_alloc + additional_entries,
               !.nentry_alloc = cd.nentry_alloc + additional_entries]

\* reads one central header at position pos of a directory buffer of the
\* given size; result: [size, err, detail, de], size < 0 on error
_libzip_dirent_read(file, pos, bufsize) ==
    LET left == bufsize - pos
        ks == {k \in 1..Len(file.hdrs) : HdrStart(file.hdrs, k) = pos}
        bad(err, detail) == [size |-> -1, err |-> err, detail |-> detail, de |-> NoDirent]
    IN  IF left < CDENTRYSIZE THEN bad(LIBZIP_ER_NOZIP, 0)
        ELSE IF ks = {} THEN bad(LIBZIP_ER_NOZIP, 0)
        ELSE Let(CHOOSE x \in ks : TRUE, LAMBDA k :
                 IF left - CDENTRYSIZE < Len(file.hdrs[k])
                 THEN bad(LIBZIP_ER_INCONS, LIBZIP_ER_DETAIL_VARIABLE_SIZE_OVERFLOW)
                 ELSE [size |-> HdrSize(file.hdrs[k]), err |-> LIBZIP_ER_OK, detail |-> 0,
                       de |-> OrigDirent(file, k)])

\* the state of the loop in _libzip_read_cdir after an error or at its end
CdirLoopResult(err, detail, cd, i, left, entry) ==
    [err |-> err, detail |-> detail, cd |-> cd, i |-> i, left |-> left, entry |-> entry]

RECURSIVE ReadCdirLoop(_, _, _, _, _, _)
\* the while (left > 0) loop of _libzip_read_cdir
ReadCdirLoop(file, cd, i, left, grown, entry) ==
    IF left <= 0 THEN CdirLoopResult(LIBZIP_ER_OK, 0, cd, i, left, entry)
    ELSE IF i = cd.nentry /\ (cd.is_zip64 \/ left < CDENTRYSIZE)
    THEN CdirLoopResult(LIBZIP_ER_OK, 0, cd, i, left, entry)
    ELSE
    Let(IF i = cd.nentry THEN _libzip_cdir_grow(cd, CDIR_GROW_STEP) ELSE cd, LAMBDA cd1 :
    Let(grown \/ i = cd.nentry, LAMBDA grown1 :
    Let(_libzip_dirent_read(file, cd.size - left, cd.size), LAMBDA r :
        IF r.size < 0
        THEN IF r.err = LIBZIP_ER_INCONS
             THEN CdirLoopResult(LIBZIP_ER_INCONS, MAKE_DETAIL_WITH_INDEX(r.detail, i), cd1, i, left, entry)
             ELSE IF grown1 /\ r.err = LIBZIP_ER_NOZIP
             THEN CdirLoopResult(LIBZIP_ER_INCONS,
                                 MAKE_DETAIL_WITH_INDEX(LIBZIP_ER_DETAIL_CDIR_ENTRY_INVALID, i),
                                 cd1, i, left, entry)
             ELSE CdirLoopResult(r.err, r.detail, cd1, i, left, entry)
        ELSE ReadCdirLoop(file, cd1, i + 1, left - r.size, grown1,
                          Append(entry, [NewEntry EXCEPT !.orig = r.de])))))

CdirResult(ok, err, detail, entry) == [ok |-> ok, err |-> err, detail |-> detail, entry |-> entry]

\* result: [ok, err, detail, entry]; the archive is read at buf_offset 0
_libzip_read_cdir(file, open_flags) ==
    Let(_libzip_read_eocd(file, 0, open_flags), LAMBDA eocd :
        IF ~eocd.cd.valid THEN CdirResult(FALSE, eocd.err, eocd.detail, <<>>)
        ELSE IF eocd.cd.offset + eocd.cd.size > EocdOffset(file)
        THEN CdirResult(FALSE, LIBZIP_ER_INCONS, LIBZIP_ER_DETAIL_CDIR_OVERLAPS_EOCD, <<>>)
        ELSE
        Let(ReadCdirLoop(file, eocd.cd, 0, eocd.cd.size, FALSE, <<>>), LAMBDA lp :
            IF lp.err # LIBZIP_ER_OK THEN CdirResult(FALSE, lp.err, lp.detail, <<>>)
            ELSE IF lp.i # lp.cd.nentry \/ lp.left > 0
            THEN CdirResult(FALSE, LIBZIP_ER_INCONS, LIBZIP_ER_DETAIL_CDIR_WRONG_ENTRIES_COUNT, <<>>)
            ELSE CdirResult(TRUE, LIBZIP_ER_OK, 0, lp.entry)))

RECURSIVE OpenHashLoop(_, _, _, _)
\* the name-index loop of _libzip_open; result: [ok, err, names]
OpenHashLoop(entry, names, idx, open_flags) ==
    IF idx >= Len(entry) THEN [ok |-> TRUE, err |-> LIBZIP_ER_OK, names |-> names]
    ELSE
    Let(_libzip_hash_add(names, _libzip_get_name(entry, idx, {}).name, idx, {LIBZIP_FL_UNCHANGED}, FALSE),
        LAMBDA h :
        IF ~h.ok /\ (h.err # LIBZIP_ER_EXISTS \/ LIBZIP_CHECKCONS \in open_flags)
        THEN [ok |-> FALSE, err |-> h.err, names |-> names]
        ELSE OpenHashLoop(entry, h.hash, idx + 1, open_flags))

OpenResult(ok, err, detail, entry, names) ==
    [ok |-> ok, err |-> err, detail |-> detail, entry |-> entry, names |-> names]

\* result: [ok, err, detail, entry, names]
_libzip_open(file, open_flags) ==
    Let(_libzip_read_cdir(file, open_flags), LAMBDA cdir :
        IF ~cdir.ok THEN OpenResult(FALSE, cdir.err, cdir.detail, <<>>, EmptyHash)
        ELSE
        Let(OpenHashLoop(cdir.entry, EmptyHash, 0, open_flags), LAMBDA hl :
            IF ~hl.ok THEN OpenResult(FALSE, hl.err, 0, <<>>, EmptyHash)
            ELSE OpenResult(TRUE, LIBZIP_ER_OK, 0, cdir.entry, hl.names)))

(* ---------------- sources ---------------- *)
\* whether a source answers LIBZIP_SOURCE_SUPPORTS_REOPEN: odd ids are
\* buffer/file sources (they do), even ids are sources that do not
libzip_source_supports_reopen(s) == s % 2 = 1

SourceData(s) == [from |-> "source", id |-> s]

ArchiveData(de) == [from |-> "archive", id |-> de.offset]

NoData == [from |-> "none", id |-> 0]

(* ---------------- zip_source_zip_new.c / zip_fopen_index_encrypted.c ---------------- *)
\* result: [err, data]
libzip_source_libzip_file_create(entry, srcidx, flags) ==
    IF srcidx >= Len(entry) THEN [err |-> LIBZIP_ER_INVAL, data |-> NoData]
    ELSE
    Let(entry[srcidx + 1], LAMBDA e :
    Let(LIBZIP_FL_UNCHANGED \in flags, LAMBDA unch :
        IF ~unch /\ LIBZIP_ENTRY_DATA_CHANGED(e) /\ ~libzip_source_supports_reopen(e.source)
        THEN [err |-> LIBZIP_ER_CHANGED, data |-> NoData]
        ELSE IF ~unch /\ ~LIBZIP_ENTRY_DATA_CHANGED(e) /\ e.deleted
        THEN [err |-> LIBZIP_ER_CHANGED, data |-> NoData]
        ELSE
        Let(~unch /\ LIBZIP_ENTRY_DATA_CHANGED(e), LAMBDA changed_data :
            IF ~changed_data /\ e.orig = NoDirent
            THEN [err |-> LIBZIP_ER_INTERNAL, data |-> NoData]
            ELSE IF changed_data
            THEN [err |-> LIBZIP_ER_OK, data |-> SourceData(e.source)]
            ELSE [err |-> LIBZIP_ER_OK, data |-> ArchiveData(e.orig)])))

\* a variant that drops the caller's flags
libzip_fopen_index_encrypted_noflags(entry, index, flags) == libzip_source_libzip_file_create(entry, index, {})

libzip_fopen_index_encrypted(entry, index, flags) == libzip_source_libzip_file_create(entry, index, flags)

\* result: [err, idx, data]
libzip_fopen(entry, names, fname, flags) ==
    Let(_libzip_name_locate(names, fname, flags), LAMBDA idx :
        IF idx < 0 THEN [err |-> LIBZIP_ER_NOENT, idx |-> idx, data |-> NoData]
        ELSE Let(libzip_fopen_index_encrypted(entry, idx, flags), LAMBDA f :
                 [err |-> f.err, idx |-> idx, data |-> f.data]))

(* ---------------- delete ---------------- *)
DropEntry(entry, idx) == SubSeq(entry, 1, idx) \o SubSeq(entry, idx + 2, Len(entry))

ShiftIndex(names, idx) ==
    [n \in DOMAIN names |->
        [names[n] EXCEPT !.current_index = IF @ > idx THEN @ - 1 ELSE @]]

\* result: [ret, err, entry, names, freed]
libzip_delete(entry, names, rdonly, idx) ==
    IF idx >= Len(entry) THEN ReplaceResult(-1, LIBZIP_ER_INVAL, entry, names, {})
    ELSE IF rdonly THEN ReplaceResult(-1, LIBZIP_ER_RDONLY, entry, names, {})
    ELSE
    Let(_libzip_get_name(entry, idx, {}), LAMBDA gn :
        IF gn.err # LIBZIP_ER_OK THEN ReplaceResult(-1, gn.err, entry, names, {})
        ELSE
        Let(_libzip_hash_delete(names, gn.name), LAMBDA hd :
            IF ~hd.ok THEN ReplaceResult(-1, hd.err, entry, names, {})
            ELSE
            Let(_libzip_unchange_data([entry[idx + 1] EXCEPT !.changes = NoDirent]), LAMBDA ud :
                IF ud.e.orig # NoDirent
                THEN ReplaceResult(0, LIBZIP_ER_OK,
                         [entry EXCEPT ![idx + 1] = [ud.e EXCEPT !.deleted = TRUE]], hd.hash, ud.freed)
                ELSE ReplaceResult(0, LIBZIP_ER_OK, DropEntry(entry, idx),
                         ShiftIndex(hd.hash, idx), ud.freed))))

(* ---------------- metadata setters ---------------- *)
\* each result: [ret, err, entry]
SetFail(entry, err) == [ret |-> -1, err |-> err, entry |-> entry]

SetOk(entry, idx, e) == [ret |-> 0, err |-> LIBZIP_ER_OK, entry |-> [entry EXCEPT ![idx + 1] = e]]

\* e->changes with bit f cleared, freed when no bit is left
ClearChanged(e, f) ==
    IF e.changes = NoDirent THEN e
    ELSE IF e.changes.changed \ {f} = {} THEN [e EXCEPT !.changes = NoDirent]
    ELSE [e EXCEPT !.changes.changed = @ \ {f}]

EnsureChanges(e) == IF e.changes = NoDirent THEN [e EXCEPT !.changes = _libzip_dirent_clone(e.orig)] ELSE e

\* libzip_file_set_mtime without its LIBZIP_IS_RDONLY test
libzip_file_set_mtime_unguarded(entry, rdonly, idx, mtime, oom) ==
    Let(_libzip_get_dirent(entry, idx, {}), LAMBDA d :
        IF d.de = NoDirent THEN SetFail(entry, d.err)
        ELSE IF entry[idx + 1].changes = NoDirent /\ oom = "clone" THEN SetFail(entry, LIBZIP_ER_MEMORY)
        ELSE Let(EnsureChanges(entry[idx + 1]), LAMBDA e :
                 SetOk(entry, idx, [e EXCEPT !.changes.last_mod = mtime,
                                             !.changes.changed = @ \cup {LIBZIP_DIRENT_LAST_MOD}])))

libzip_file_set_mtime(entry, rdonly, idx, mtime, oom) ==
    Let(_libzip_get_dirent(entry, idx, {}), LAMBDA d :
        IF d.de = NoDirent THEN SetFail(entry, d.err)
        ELSE IF rdonly THEN SetFail(entry, LIBZIP_ER_RDONLY)
        ELSE IF entry[idx + 1].changes = NoDirent /\ oom = "clone" THEN SetFail(entry, LIBZIP_ER_MEMORY)
        ELSE Let(EnsureChanges(entry[idx + 1]), LAMBDA e :
                 SetOk(entry, idx, [e EXCEPT !.changes.last_mod = mtime,
                                             !.changes.changed = @ \cup {LIBZIP_DIRENT_LAST_MOD}])))

libzip_compression_method_supported(method) == method \in {LIBZIP_CM_DEFAULT, LIBZIP_CM_STORE, LIBZIP_CM_DEFLATE}

libzip_set_file_compression(entry, rdonly, idx, method, oom) ==
    IF idx >= Len(entry) THEN SetFail(entry, LIBZIP_ER_INVAL)
    ELSE IF rdonly THEN SetFail(entry, LIBZIP_ER_RDONLY)
    ELSE IF ~libzip_compression_method_supported(method) THEN SetFail(entry, LIBZIP_ER_COMPNOTSUPP)
    ELSE
    Let(entry[idx + 1], LAMBDA e :
    Let(IF e.orig = NoDirent THEN LIBZIP_CM_DEFAULT ELSE e.orig.comp_method, LAMBDA old_method :
        IF method = old_method
        THEN SetOk(entry, idx, ClearChanged(e, LIBZIP_DIRENT_COMP_METHOD))
        ELSE IF e.changes = NoDirent /\ oom = "clone" THEN SetFail(entry, LIBZIP_ER_MEMORY)
        ELSE SetOk(entry, idx, [EnsureChanges(e) EXCEPT !.changes.comp_method = method,
                                    !.changes.changed = @ \cup {LIBZIP_DIRENT_COMP_METHOD}])))

libzip_file_set_comment(entry, rdonly, idx, comment, oom) ==
    Let(_libzip_get_dirent(entry, idx, {}), LAMBDA d :
        IF d.de = NoDirent THEN SetFail(entry, d.err)
        ELSE IF rdonly THEN SetFail(entry, LIBZIP_ER_RDONLY)
        ELSE
        Let(IF entry[idx + 1].changes = NoDirent THEN entry[idx + 1]
            ELSE [entry[idx + 1] EXCEPT !.changes.comment = "",
                                        !.changes.changed = @ \ {LIBZIP_DIRENT_COMMENT}], LAMBDA e :
        Let(IF e.orig # NoDirent /\ e.orig.comment # ""
            THEN ~_libzip_string_equal(e.orig.comment, comment)
            ELSE comment # "", LAMBDA changed :
            IF changed
            THEN IF e.changes = NoDirent /\ oom = "clone" THEN SetFail(entry, LIBZIP_ER_MEMORY)
                 ELSE SetOk(entry, idx, [EnsureChanges(e) EXCEPT !.changes.comment = comment,
                                             !.changes.changed = @ \cup {LIBZIP_DIRENT_COMMENT}])
            ELSE SetOk(entry, idx, IF e.changes # NoDirent /\ e.changes.changed = {}
                                   THEN [e EXCEPT !.changes = NoDirent] ELSE e))))

\* result: [ret, err, comment]
libzip_set_archive_comment(zc, rdonly, c) ==
    IF rdonly THEN [ret |-> -1, err |-> LIBZIP_ER_RDONLY, comment |-> zc]
    ELSE IF _libzip_string_equal(zc.orig, c)
    THEN [ret |-> 0, err |-> LIBZIP_ER_OK, comment |-> [zc EXCEPT !.changes = "", !.changed = FALSE]]
    ELSE [ret |-> 0, err |-> LIBZIP_ER_OK, comment |-> [zc EXCEPT !.changes = c, !.changed = TRUE]]

(* ---------------- zip_extra_field_api.c ---------------- *)
LIBZIP_EF_LOCAL == 256
EfIds == {21838}
LIBZIP_EXTRA_FIELD_NEW == 65535

\* result: [ret, err, entry]
_libzip_file_extra_field_prepare_for_change(entry, idx, oom) ==
    IF idx >= Len(entry) THEN SetFail(entry, LIBZIP_ER_INVAL)
    ELSE
    Let(entry[idx + 1], LAMBDA e :
        IF LIBZIP_ENTRY_CHANGED(e, LIBZIP_DIRENT_EXTRA_FIELD) THEN SetOk(entry, idx, e)
        ELSE IF e.changes = NoDirent /\ oom = "clone" THEN SetFail(entry, LIBZIP_ER_MEMORY)
        ELSE SetOk(entry, idx, [EnsureChanges(e) EXCEPT
                                    !.changes.changed = @ \cup {LIBZIP_DIRENT_EXTRA_FIELD}]))

\* position (1-based) of the ef_idx-th field with this id and flags, 0 if none
EfFind(efs, ef_id, ef_idx, flags) ==
    Let({k \in 1..Len(efs) : efs[k].id = ef_id /\ efs[k].flags \cap flags # {}}, LAMBDA match :
        IF \E k \in match : Cardinality({j \in match : j < k}) = ef_idx
        THEN CHOOSE k \in match : Cardinality({j \in match : j < k}) = ef_idx
        ELSE 0)

EfCount(efs, ef_id, flags) ==
    Cardinality({k \in 1..Len(efs) : efs[k].id = ef_id /\ efs[k].flags \cap flags # {}})

\* fields are [id, flags, data]
libzip_file_extra_field_set(entry, rdonly, idx, ef_id, ef_idx, data, flags, oom) ==
    IF flags = {} THEN SetFail(entry, LIBZIP_ER_INVAL)
    ELSE IF _libzip_get_dirent(entry, idx, {}).de = NoDirent
    THEN SetFail(entry, _libzip_get_dirent(entry, idx, {}).err)
    ELSE IF rdonly THEN SetFail(entry, LIBZIP_ER_RDONLY)
    ELSE
    Let(_libzip_file_extra_field_prepare_for_change(entry, idx, oom), LAMBDA pc :
        IF pc.ret < 0 THEN pc
        ELSE
        Let(pc.entry[idx + 1].changes.extra_fields, LAMBDA efs :
        Let(EfFind(efs, ef_id, ef_idx, flags), LAMBDA pos :
        Let([id |-> ef_id, flags |-> flags, data |-> data], LAMBDA ef_new :
            IF pos = 0 /\ EfCount(efs, ef_id, flags) < ef_idx /\ ef_idx # LIBZIP_EXTRA_FIELD_NEW
            THEN SetFail(pc.entry, LIBZIP_ER_INVAL)
            ELSE IF oom = "ef" THEN SetFail(pc.entry, LIBZIP_ER_MEMORY)
            ELSE IF pos # 0 /\ efs[pos].flags = flags
            THEN SetOk(pc.entry, idx,
                       [pc.entry[idx + 1] EXCEPT !.changes.extra_fields = [efs EXCEPT ![pos] = ef_new]])
            ELSE IF pos # 0
            THEN SetOk(pc.entry, idx, [pc.entry[idx + 1] EXCEPT !.changes.extra_fields =
                      SubSeq(efs, 1, pos - 1) \o <<[efs[pos] EXCEPT !.flags = @ \ flags], ef_new>>
                      \o SubSeq(efs, pos + 1, Len(efs))])
            ELSE SetOk(pc.entry, idx,
                       [pc.entry[idx + 1] EXCEPT !.changes.extra_fields = Append(efs, ef_new)])))))

(* ---------------- state ---------------- *)
\* open      : the archive handle exists
\* ch_flags  : za->ch_flags
\* entry     : za->entry[0 .. nentry-1]
\* names     : za->names
\* comment   : za->comment_orig / comment_changes / comment_changed
\* owner     : who must free each source: "caller", "archive" or "freed"
\* ret       : the last public call, its arguments and what it returned
\* crc_src   : the CRC layer and its lower source
\* layer     : a layered source (window, compress, encrypt, decrypt) and its
\*             lower source
\* progress  : za->progress
\* fs        : the directory of the archive file, the context of its file
\*             source, and where libzip_close is
\* cursor    : a libzip_buffer_t that is read and written
\* table     : a libzip_hash_t with the size of its table
VARIABLES open, ch_flags, entry, names, comment, owner, ret, crc_src, layer, progress, fs, cursor,
          table

vars == <<open, ch_flags, entry, names, comment, owner, ret, crc_src, layer, progress, fs, cursor, table>>

LIBZIP_IS_RDONLY == LIBZIP_AFL_RDONLY \in ch_flags

Release(own, freed) == [s \in SrcIds |-> IF s \in freed THEN "freed" ELSE own[s]]

NoComment == [orig |-> "", changes |-> "", changed |-> FALSE]

\* no CRC layer has been created
NoCrcSource == [created |-> FALSE]

\* no layered source has been created
NoLayer == [kind |-> "none"]

\* no progress state has been allocated for the archive
NoProgress == [allocated |-> FALSE]

\* no archive file is being written
NoFiles == [state |-> "none"]

\* no buffer has been made
NoBuffer == [made |-> FALSE]

\* no name index has been made
NoHash == [made |-> FALSE]

Init ==
    /\ open = FALSE
    /\ ch_flags = {}
    /\ entry = <<>>
    /\ names = EmptyHash
    /\ comment = NoComment
    /\ owner = [s \in SrcIds |-> "caller"]
    /\ ret = [op |-> "none", code |-> LIBZIP_ER_OK]
    /\ crc_src = NoCrcSource
    /\ layer = NoLayer
    /\ progress = NoProgress
    /\ fs = NoFiles
    /\ cursor = NoBuffer
    /\ table = NoHash

(* ---------------- actions: the public calls ---------------- *)
\* libzip_open_from_source: the first call of a session
LibzipOpen(file, flags, writable) ==
    /\ ~open
    /\ ret.op = "none"
    /\ \E flags1 \in {IF writable THEN flags ELSE flags \cup {LIBZIP_RDONLY}} :
       \E r \in {_libzip_open(file, flags1)} :
        /\ open' = r.ok
        /\ ch_flags' = IF r.ok /\ LIBZIP_RDONLY \in flags1 THEN {LIBZIP_AFL_RDONLY} ELSE {}
        /\ entry' = r.entry
        /\ names' = r.names
        /\ ret' = [op |-> "open", code |-> r.err, detail |-> r.detail, file |-> file,
                   flags |-> flags, writable |-> writable]
        /\ UNCHANGED <<cursor, table, layer, progress, fs, crc_src, comment, owner>>

\* libzip_file_add
LibzipFileAdd(name, s, flags, oom) ==
    /\ open
    /\ owner[s] = "caller"
    /\ \E r \in {_libzip_file_replace(entry, names, LIBZIP_IS_RDONLY, NoIndex, name, s, flags, oom)} :
           /\ entry' = r.entry
           /\ names' = r.names
           /\ owner' = [Release(owner, r.freed) EXCEPT ![s] = IF r.ret >= 0 THEN "archive" ELSE @]
           /\ ret' = [op |-> "file_add", code |-> r.err, idx |-> r.ret, name |-> name, src |-> s,
                      flags |-> flags]
           /\ UNCHANGED <<cursor, table, layer, progress, fs, crc_src, open, ch_flags, comment>>

\* libzip_file_replace
LibzipFileReplace(idx, s, oom) ==
    /\ open
    /\ owner[s] = "caller"
    /\ \E r \in {IF idx >= Len(entry)
                THEN [ret |-> -1, err |-> LIBZIP_ER_INVAL, entry |-> entry, names |-> names, freed |-> {}]
                ELSE _libzip_file_replace(entry, names, LIBZIP_IS_RDONLY, idx, "", s, {}, oom)} :
           /\ entry' = r.entry
           /\ names' = r.names
           /\ owner' = [Release(owner, r.freed) EXCEPT ![s] = IF r.ret >= 0 THEN "archive" ELSE @]
           /\ ret' = [op |-> "file_replace", code |-> r.err, idx |-> idx, src |-> s]
           /\ UNCHANGED <<cursor, table, layer, progress, fs, crc_src, open, ch_flags, comment>>

\* libzip_file_rename
LibzipFileRename(idx, name, oom) ==
    /\ open
    /\ \E r \in {IF idx >= Len(entry) THEN SetNameResult(-1, LIBZIP_ER_INVAL, entry, names)
                  ELSE IF LIBZIP_IS_RDONLY THEN SetNameResult(-1, LIBZIP_ER_RDONLY, entry, names)
                  ELSE IF _libzip_get_name(entry, idx, {}).err # LIBZIP_ER_OK
                  THEN SetNameResult(-1, _libzip_get_name(entry, idx, {}).err, entry, names)
                  ELSE _libzip_set_name(entry, names, LIBZIP_IS_RDONLY, idx, name, oom)} :
           /\ entry' = r.entry
           /\ names' = r.names
           /\ ret' = [op |-> "file_rename", code |-> r.err, idx |-> idx, name |-> name]
           /\ UNCHANGED <<cursor, table, layer, progress, fs, crc_src, open, ch_flags, comment, owner>>

\* libzip_delete
LibzipDelete(idx) ==
    /\ open
    /\ \E r \in {libzip_delete(entry, names, LIBZIP_IS_RDONLY, idx)} :
           /\ entry' = r.entry
           /\ names' = r.names
           /\ owner' = Release(owner, r.freed)
           /\ ret' = [op |-> "delete", code |-> r.err, idx |-> idx,
                      name |-> _libzip_get_name(entry, idx, {}).name]
           /\ UNCHANGED <<cursor, table, layer, progress, fs, crc_src, open, ch_flags, comment>>

\* libzip_fopen followed by reading the whole file
LibzipFopen(name, flags) ==
    /\ open
    /\ \E r \in {libzip_fopen(entry, names, name, flags)} :
           /\ ret' = [op |-> "fopen", code |-> r.err, idx |-> r.idx, name |-> name,
                      flags |-> flags, data |-> r.data]
           /\ UNCHANGED <<cursor, table, layer, progress, fs, crc_src, open, ch_flags, entry, names, comment, owner>>

\* libzip_discard: the last call of a session
LibzipDiscard ==
    /\ open
    /\ open' = FALSE
    /\ ch_flags' = {}
    /\ entry' = <<>>
    /\ names' = EmptyHash
    /\ comment' = NoComment
    /\ owner' = Release(owner, {entry[k].source : k \in 1..Len(entry)})
    /\ ret' = [op |-> "discard", code |-> LIBZIP_ER_OK]
    /\ UNCHANGED <<cursor, table, layer, progress, fs, crc_src>>

\* a setter of one entry's metadata, r its result
EntrySetter(op, idx, result) ==
    /\ open
    /\ \E r \in {result} :
           /\ entry' = r.entry
           /\ ret' = [op |-> op, code |-> r.err, idx |-> idx]
           /\ UNCHANGED <<cursor, table, layer, progress, fs, crc_src, open, ch_flags, names, comment, owner>>

LibzipFileSetMtime(idx, mtime, oom) ==
    EntrySetter("file_set_mtime", idx, libzip_file_set_mtime(entry, LIBZIP_IS_RDONLY, idx, mtime, oom))

LibzipSetFileCompression(idx, method, oom) ==
    EntrySetter("set_file_compression", idx,
                libzip_set_file_compression(entry, LIBZIP_IS_RDONLY, idx, method, oom))

LibzipFileSetComment(idx, c, oom) ==
    EntrySetter("file_set_comment", idx, libzip_file_set_comment(entry, LIBZIP_IS_RDONLY, idx, c, oom))

LibzipFileExtraFieldSet(idx, ef_id, ef_idx, flags, oom) ==
    EntrySetter("file_extra_field_set", idx,
                libzip_file_extra_field_set(entry, LIBZIP_IS_RDONLY, idx, ef_id, ef_idx, 1, flags, oom))

LibzipSetArchiveComment(c) ==
    /\ open
    /\ \E r \in {libzip_set_archive_comment(comment, LIBZIP_IS_RDONLY, c)} :
           /\ comment' = r.comment
           /\ ret' = [op |-> "set_archive_comment", code |-> r.err]
           /\ UNCHANGED <<cursor, table, layer, progress, fs, crc_src, open, ch_flags, entry, names, owner>>

(* ---------------- inputs ---------------- *)
OpenFlagSets == SUBSET {LIBZIP_CHECKCONS, LIBZIP_RDONLY}

Indexes == 0..Len(entry)

Mtimes == {0, 1}

Methods == {LIBZIP_CM_STORE, LIBZIP_CM_DEFLATE}

Comments == {"", "x"}

Open == \E file \in Files, flags \in OpenFlagSets, writable \in BOOLEAN : LibzipOpen(file, flags, writable)

OpenReadOnly ==
    \E file \in Files, flags \in OpenFlagSets, writable \in BOOLEAN :
        /\ LIBZIP_RDONLY \in flags \/ ~writable
        /\ LibzipOpen(file, flags, writable)

FileAdd == \E name \in Names, s \in SrcIds, oom \in OomPoints : LibzipFileAdd(name, s, {}, oom)

FileAddOverwrite ==
    \E name \in Names, s \in SrcIds, oom \in OomPoints : LibzipFileAdd(name, s, {LIBZIP_FL_OVERWRITE}, oom)

FileReplace == \E idx \in Indexes, s \in SrcIds, oom \in OomPoints : LibzipFileReplace(idx, s, oom)

FileRename == \E idx \in Indexes, name \in Names, oom \in OomPoints : LibzipFileRename(idx, name, oom)

Delete == \E idx \in Indexes : LibzipDelete(idx)

Fopen == \E name \in Names, flags \in {{}, {LIBZIP_FL_UNCHANGED}} : LibzipFopen(name, flags)

Discard == LibzipDiscard

FileSetMtime == \E idx \in Indexes, mtime \in Mtimes, oom \in OomPoints : LibzipFileSetMtime(idx, mtime, oom)

SetFileCompression ==
    \E idx \in Indexes, method \in Methods, oom \in OomPoints : LibzipSetFileCompression(idx, method, oom)

FileSetComment == \E idx \in Indexes, c \in Comments, oom \in OomPoints : LibzipFileSetComment(idx, c, oom)

FileExtraFieldSet ==
    \E idx \in Indexes, ef_id \in EfIds, ef_idx \in {0, LIBZIP_EXTRA_FIELD_NEW},
       flags \in {{}, {LIBZIP_EF_LOCAL}}, oom \in OomPoints :
        LibzipFileExtraFieldSet(idx, ef_id, ef_idx, flags, oom)

SetArchiveComment == \E c \in Comments : LibzipSetArchiveComment(c)

(* ---------------- specifications ---------------- *)
\* entries and their data: adding, replacing, deleting and reading
Next == Open \/ FileAdd \/ FileAddOverwrite \/ FileReplace \/ Delete \/ Fopen \/ Discard

Spec == Init /\ [][Next]_vars

\* the names of the entries and the name index
NextName == Open \/ FileAdd \/ FileRename \/ Delete

SpecName == Init /\ [][NextName]_vars

\* the metadata of the entries
NextMeta == Open \/ FileRename \/ FileSetMtime \/ SetFileCompression

SpecMeta == Init /\ [][NextMeta]_vars

\* every mutator on an archive opened read-only
NextReadOnly ==
    \/ OpenReadOnly
    \/ FileAdd \/ FileAddOverwrite \/ FileReplace \/ FileRename \/ Delete
    \/ FileSetMtime \/ SetFileCompression \/ FileSetComment \/ FileExtraFieldSet \/ SetArchiveComment
    \/ Fopen

SpecReadOnly == Init /\ [][NextReadOnly]_vars

(* ---------------- C1: read-only archives ---------------- *)
MutatorOps ==
    {"file_add", "file_replace", "file_rename", "delete", "file_set_mtime", "set_file_compression",
     "file_set_comment", "file_extra_field_set", "set_archive_comment"}

\* C1: when the archive was opened read-only (requested, or forced because its
\* source is not writable), every mutator call returns a failure and leaves the
\* entry table, the name index, every change set and the sources untouched.
C1_ReadOnlyMutatorsFail ==
    [][(open /\ LIBZIP_AFL_RDONLY \in ch_flags /\ ret'.op \in MutatorOps)
          => (ret'.code # LIBZIP_ER_OK /\ UNCHANGED <<cursor, table, entry, names, comment, owner, open, ch_flags>>)]_vars

\* a mutator was refused on a read-only archive that holds entries
C1_Witness ==
    /\ open
    /\ LIBZIP_AFL_RDONLY \in ch_flags
    /\ Len(entry) >= 1
    /\ ret.op = "file_set_mtime"
    /\ ret.code = LIBZIP_ER_RDONLY

(* ---------------- views of the entry table ---------------- *)
\* entry k (1-based) is live: not marked deleted
Live(ent, k) == ~ent[k].deleted

\* the name entry k has in the default view
CurrentName(ent, k) == IF ent[k].changes # NoDirent THEN ent[k].changes.filename ELSE ent[k].orig.filename

\* the live entries that carry the name n
LiveNamed(ent, n) == {k \in 1..Len(ent) : Live(ent, k) /\ CurrentName(ent, k) = n}

\* the entries read from the archive whose original name is n
OrigNamed(ent, n) == {k \in 1..Len(ent) : ent[k].orig # NoDirent /\ ent[k].orig.filename = n}

Writable == open /\ LIBZIP_AFL_RDONLY \notin ch_flags

(* ---------------- C2: name index ---------------- *)
\* C2: looking up the current name of any live entry in the default view finds
\* a live entry with that name, and looking up the original name of any entry
\* read from the archive in the unchanged view finds an original entry with
\* that name -- also when the archive holds two entries with the same name.
C2_NameIndexFindsEveryName ==
    open =>
        /\ \A k \in 1..Len(entry) :
              Live(entry, k) =>
                  _libzip_name_locate(names, CurrentName(entry, k), {}) + 1 \in LiveNamed(entry, CurrentName(entry, k))
        /\ \A k \in 1..Len(entry) :
              entry[k].orig # NoDirent =>
                  _libzip_name_locate(names, entry[k].orig.filename, {LIBZIP_FL_UNCHANGED}) + 1
                      \in OrigNamed(entry, entry[k].orig.filename)

(* ---------------- C3: file_add and existing names ---------------- *)
\* C3: file_add(name) on a writable archive returns EXISTS exactly when a live
\* entry carries that name at the time of the call.
C3_AddExistsIffLiveName ==
    [][(Writable /\ ret'.op = "file_add" /\ ret'.flags = {})
          => /\ ret'.code = LIBZIP_ER_EXISTS => LiveNamed(entry, ret'.name) # {}
             /\ LiveNamed(entry, ret'.name) # {} => ret'.code = LIBZIP_ER_EXISTS]_vars

(* ---------------- C4: add after delete ---------------- *)
\* C4: after delete(i) of an entry read from the archive, file_add with the
\* name entry i had succeeds (unless memory runs out), the new entry is the
\* only live entry with that name, and the unchanged view still maps the name
\* to original entry i.
C4_AddAfterDelete ==
    [][(/\ Writable
        /\ ret.op = "delete" /\ ret.code = LIBZIP_ER_OK
        /\ ret.idx < Len(entry) /\ entry[ret.idx + 1].deleted
        /\ entry[ret.idx + 1].orig.filename = ret.name
        /\ ret'.op = "file_add" /\ ret'.flags = {} /\ ret'.name = ret.name
        /\ ret'.code # LIBZIP_ER_MEMORY)
          => /\ ret'.code = LIBZIP_ER_OK
             /\ LiveNamed(entry', ret.name) = {ret'.idx + 1}
             /\ _libzip_name_locate(names', ret.name, {LIBZIP_FL_UNCHANGED}) = ret.idx]_vars

(* ---------------- C5: rename onto an existing name ---------------- *)
\* C5: renaming a live entry to a name that a different live entry carries
\* returns EXISTS and leaves the entry's name and the name index unchanged.
C5_RenameOntoLiveName ==
    [][(/\ Writable
        /\ ret'.op = "file_rename"
        /\ ret'.idx < Len(entry) /\ Live(entry, ret'.idx + 1)
        /\ CurrentName(entry, ret'.idx + 1) # ret'.name
        /\ LiveNamed(entry, ret'.name) \ {ret'.idx + 1} # {})
          => /\ ret'.code = LIBZIP_ER_EXISTS
             /\ CurrentName(entry', ret'.idx + 1) = CurrentName(entry, ret'.idx + 1)
             /\ names' = names]_vars

(* ---------------- C6: entry invariants ---------------- *)
\* C6: whenever a public call has returned, every entry of the entry table
\* without an original dirent has a source, and only entries with an original
\* dirent are marked deleted.
C6_EntryInvariants ==
    open => \A k \in 1..Len(entry) :
                /\ entry[k].orig = NoDirent => entry[k].source # NoSource
                /\ entry[k].deleted => entry[k].orig # NoDirent

\* a failed add has returned while the table holds an added and a deleted entry
C6_Witness ==
    /\ open /\ ret.op = "file_add" /\ ret.code = LIBZIP_ER_EXISTS
    /\ \E k \in 1..Len(entry) : entry[k].orig = NoDirent /\ entry[k].source # NoSource
    /\ \E k \in 1..Len(entry) : entry[k].deleted

(* ---------------- C7: presence of the changes dirent ---------------- *)
\* some metadata of the entry differs from its original dirent
MetadataModified(e) ==
    /\ e.changes # NoDirent
    /\ \/ e.changes.filename # e.orig.filename
       \/ e.changes.comp_method # e.orig.comp_method
       \/ e.changes.last_mod # e.orig.last_mod
       \/ e.changes.comment # e.orig.comment
       \/ e.changes.extra_fields # e.orig.extra_fields

\* C7: after every mutator call an entry read from the archive has a changes
\* dirent if and only if some of its metadata is modified relative to its
\* original -- also after a rename that fails part-way, a rename back to the
\* original name, and a set-mtime or set-compression call that supplies the
\* value the entry already has.
C7_ChangesIffModified ==
    open => \A k \in 1..Len(entry) :
                entry[k].orig # NoDirent => (entry[k].changes # NoDirent <=> MetadataModified(entry[k]))

(* ---------------- C8: the two views when reading ---------------- *)
\* what the unchanged view delivers for name n: the name resolves to an entry
\* read from the archive with that original name, and the open succeeds with
\* its original data
UnchangedViewRead(ent, r) ==
    OrigNamed(ent, r.name) # {}
        => /\ r.code = LIBZIP_ER_OK
           /\ r.idx + 1 \in OrigNamed(ent, r.name)
           /\ r.data = ArchiveData(ent[r.idx + 1].orig)

C9_SourceOwnership ==
    (open /\ ret.op \in {"file_add", "file_replace"})
        => IF ret.code # LIBZIP_ER_OK
           THEN /\ owner[ret.src] = "caller"
                /\ \A k \in 1..Len(entry) : entry[k].source # ret.src
           ELSE /\ owner[ret.src] = "archive"
                /\ entry[ret.idx + 1].source = ret.src

\* a replace has failed after it had started to change the entry
C9_Witness ==
    /\ open /\ ret.op = "file_replace" /\ ret.code = LIBZIP_ER_MEMORY
    /\ owner[ret.src] = "caller"
    /\ entry[ret.idx + 1].source = NoSource

(* ---------------- C10: entry count of the EOCD record ---------------- *)
\* the archive just opened: its EOCD record claims one entry, its central
\* directory holds two headers
OneClaimedTwoPresent == ret.op = "open" /\ ret.file.nentry = 1 /\ Len(ret.file.hdrs) = 2

\* C10 as stated: such an archive is accepted under default flags and
\* rejected with INCONS / CDIR_WRONG_ENTRIES_COUNT under CHECKCONS.
C10_AsStated ==
    (OneClaimedTwoPresent /\ ret.file.size = CdBytes(ret.file.hdrs) /\ ret.file.gap = 0)
        => IF LIBZIP_CHECKCONS \in ret.flags
           THEN ret.code = LIBZIP_ER_INCONS /\ ret.detail = LIBZIP_ER_DETAIL_CDIR_WRONG_ENTRIES_COUNT
           ELSE ret.code = LIBZIP_ER_OK /\ open

\* C10 (amended): an archive whose EOCD record claims one entry but whose
\* central directory, as sized by the EOCD record, holds two headers is
\* rejected with INCONS under default flags as well as under CHECKCONS; the
\* detail is CDIR_WRONG_ENTRIES_COUNT under default flags, and under CHECKCONS
\* when the directory ends where the EOCD record starts.  Only when the EOCD
\* size covers just the first header is the archive accepted under default
\* flags (with one entry), and CHECKCONS then rejects it with
\* INCONS / CDIR_LENGTH_INVALID.
C10_EntryCountMismatch ==
    OneClaimedTwoPresent
        => /\ ret.file.size = CdBytes(ret.file.hdrs)
                => /\ ret.code = LIBZIP_ER_INCONS /\ ~open
                   /\ (LIBZIP_CHECKCONS \notin ret.flags \/ ret.file.gap = 0)
                         => ret.detail = LIBZIP_ER_DETAIL_CDIR_WRONG_ENTRIES_COUNT
           /\ ret.file.size = HdrSize(ret.file.hdrs[1])
                => IF LIBZIP_CHECKCONS \in ret.flags
                   THEN ret.code = LIBZIP_ER_INCONS /\ ret.detail = LIBZIP_ER_DETAIL_CDIR_LENGTH_INVALID
                   ELSE ret.code = LIBZIP_ER_OK /\ open /\ Len(entry) = 1

\* such an archive has been opened under default flags and was rejected
C10_Witness ==
    /\ OneClaimedTwoPresent /\ ret.file.size = CdBytes(ret.file.hdrs) /\ ret.file.gap = 0
    /\ ret.flags = {}
    /\ ret.code = LIBZIP_ER_INCONS /\ ret.detail = LIBZIP_ER_DETAIL_CDIR_WRONG_ENTRIES_COUNT


(* ================= zip_open.c: choosing among EOCD candidates ================= *)
MaxCands == 3
MaxCdEntries == 1

LIBZIP_ER_DETAIL_ENTRY_HEADER_MISMATCH == 6

\* a central entry as _libzip_checkcons looks at it: where its local header
\* is, how long its data and its name are, and what is found at that place
CdEntryOffsets == {0, 50}
CdEntryCompSizes == {0, 10}
LocalHeaders == {"match", "mismatch", "unreadable"}
CheckEntries == [offset : CdEntryOffsets, comp_size : CdEntryCompSizes, fnlen : {1}, local : LocalHeaders]

\* what _libzip_read_cdir makes of one EOCD signature in the tail buffer:
\* no directory (NULL), or a directory with its offset and entries
CdirOffsets == {60, 100}
ReadCdirErrors == {LIBZIP_ER_NOZIP, LIBZIP_ER_INCONS}
Candidates ==
    {[null |-> TRUE, err |-> e] : e \in ReadCdirErrors} \cup {[null |-> FALSE, offset |-> o, entry |-> es] : o \in CdirOffsets, es \in SeqsUpTo(CheckEntries, MaxCdEntries)}

\* the EOCD signatures found in the tail buffer, by increasing position
CandidateSeqs == SeqsUpTo(Candidates, MaxCands)

FindError(err, detail) == [err |-> err, detail |-> detail]

CheckconsResult(val, error) == [val |-> val, error |-> error]

RECURSIVE CheckconsLoop(_, _, _, _, _)
\* the for loop of _libzip_checkcons
CheckconsLoop(cd, i, min, max, error) ==
    IF i >= Len(cd.entry) THEN CheckconsResult(max - min, error)
    ELSE
    Let(cd.entry[i + 1], LAMBDA e :
    Let(IF e.offset < min THEN e.offset ELSE min, LAMBDA min1 :
        IF min1 > cd.offset THEN CheckconsResult(-1, FindError(LIBZIP_ER_NOZIP, 0))
        ELSE
        Let(e.offset + e.comp_size + e.fnlen + LENTRYSIZE, LAMBDA j :
        Let(IF j > max THEN j ELSE max, LAMBDA max1 :
            IF max1 > cd.offset THEN CheckconsResult(-1, FindError(LIBZIP_ER_NOZIP, 0))
            ELSE IF e.local = "unreadable" THEN CheckconsResult(-1, FindError(LIBZIP_ER_NOZIP, 0))
            ELSE IF e.local = "mismatch"
            THEN CheckconsResult(-1, FindError(LIBZIP_ER_INCONS,
                                               MAKE_DETAIL_WITH_INDEX(LIBZIP_ER_DETAIL_ENTRY_HEADER_MISMATCH, i)))
            ELSE CheckconsLoop(cd, i + 1, min1, max1, error)))))

\* a variant that does not compare the local header with the central entry
_libzip_checkcons_uncompared(cd, error) ==
    IF Len(cd.entry) > 0
    THEN CheckconsLoop([cd EXCEPT !.entry = [i \in DOMAIN cd.entry |-> [cd.entry[i] EXCEPT !.local = "match"]]],
                       0, cd.entry[1].offset, cd.entry[1].offset, error)
    ELSE CheckconsLoop(cd, 0, 0, 0, error)

\* result: [val, error]; val = -1 if not plausible, else the span of file
\* positions the entries cover; error is the caller's error unless val = -1
_libzip_checkcons(cd, error) ==
    IF Len(cd.entry) > 0
    THEN CheckconsLoop(cd, 0, cd.entry[1].offset, cd.entry[1].offset, error)
    ELSE CheckconsLoop(cd, 0, 0, 0, error)


FindResult(cdir, error) == [cdir |-> cdir, err |-> error.err, detail |-> error.detail]

RECURSIVE FindLoop(_, _, _, _, _, _)
\* the while loop of _libzip_find_central_dir over the EOCD signatures;
\* cdir is the position in cands of the directory held so far, 0 for NULL
FindLoop(cands, k, cdir, best, error, open_flags) ==
    IF k > Len(cands)
    THEN IF best < 0 THEN FindResult(0, error) ELSE FindResult(cdir, FindError(LIBZIP_ER_OK, 0))
    ELSE IF cands[k].null
    THEN FindLoop(cands, k + 1, cdir, best, FindError(cands[k].err, 0), open_flags)
    ELSE IF cdir # 0
    THEN Let(IF best <= 0 THEN _libzip_checkcons(cands[cdir], error) ELSE CheckconsResult(best, error), LAMBDA b :
         Let(_libzip_checkcons(cands[k], b.error), LAMBDA a :
             IF b.val < a.val
             THEN FindLoop(cands, k + 1, k, a.val, a.error, open_flags)
             ELSE FindLoop(cands, k + 1, cdir, b.val, a.error, open_flags)))
    ELSE IF LIBZIP_CHECKCONS \in open_flags
    THEN Let(_libzip_checkcons(cands[k], error), LAMBDA r :
             FindLoop(cands, k + 1, k, r.val, r.error, open_flags))
    ELSE FindLoop(cands, k + 1, k, 0, error, open_flags)

\* a variant that keeps the last directory that could be read
_libzip_find_central_dir_last(cands, open_flags) ==
    Let({k \in 1..Len(cands) : ~cands[k].null}, LAMBDA parsed :
        IF parsed = {} THEN FindResult(0, FindError(LIBZIP_ER_NOZIP, 0))
        ELSE FindResult(CHOOSE k \in parsed : \A j \in parsed : j <= k, FindError(LIBZIP_ER_OK, 0)))

\* result: [cdir, err, detail]; cdir = 0 stands for NULL
_libzip_find_central_dir(cands, open_flags) ==
    FindLoop(cands, 1, 0, -1, FindError(LIBZIP_ER_NOZIP, 0), open_flags)

\* _libzip_find_central_dir called on a tail buffer
LibzipFindCentralDir(cands, open_flags) ==
    /\ ~open
    /\ ret.op = "none"
    /\ \E r \in {_libzip_find_central_dir(cands, open_flags)} :
           ret' = [op |-> "find_central_dir", code |-> r.err, detail |-> r.detail, cdir |-> r.cdir,
                   cands |-> cands, flags |-> open_flags]
    /\ UNCHANGED <<cursor, table, layer, progress, fs, crc_src, open, ch_flags, entry, names, comment, owner>>

\* the function is called once, on a fresh archive handle
FindCentralDir ==
    /\ ret.op = "none"
    /\ \E cands \in CandidateSeqs, flags \in SUBSET {LIBZIP_CHECKCONS} : LibzipFindCentralDir(cands, flags)

NextFind == FindCentralDir
SpecFind == Init /\ [][NextFind]_vars


(* ---------------- C11, C12: which EOCD candidate is taken ---------------- *)
\* positions of the candidates that _libzip_read_cdir could read
Parsed(cands) == {k \in 1..Len(cands) : ~cands[k].null}

\* end of the data of entry i of directory c
EntryEnd(c, i) == c.entry[i].offset + c.entry[i].comp_size + c.entry[i].fnlen + LENTRYSIZE

\* every local header is where the directory says, reads and agrees with its
\* central entry, and no entry reaches into the directory
Plausible(c) ==
    \A i \in 1..Len(c.entry) : c.entry[i].local = "match" /\ EntryEnd(c, i) <= c.offset

\* number of entries whose local header does not agree with the central entry
Mismatches(c) == Cardinality({i \in 1..Len(c.entry) : c.entry[i].local # "match"})

\* distance between the lowest and the highest file position of the entries
Span(c) ==
    IF c.entry = <<>> THEN 0
    ELSE (CHOOSE m \in {EntryEnd(c, i) : i \in 1..Len(c.entry)} : \A i \in 1..Len(c.entry) : EntryEnd(c, i) <= m)
         - (CHOOSE m \in {c.entry[i].offset : i \in 1..Len(c.entry)} : \A i \in 1..Len(c.entry) : m <= c.entry[i].offset)

Score(c) == IF Plausible(c) THEN Span(c) ELSE -1

\* the first of the readable candidates among those with the greatest score
FirstBest(cands) ==
    CHOOSE k \in Parsed(cands) :
        /\ \A j \in Parsed(cands) : Score(cands[j]) <= Score(cands[k])
        /\ \A j \in Parsed(cands) : Score(cands[j]) = Score(cands[k]) => k <= j

\* C11 as stated: without CHECKCONS, of several candidates that parse the
\* last one (highest offset) is selected.
C11_LastCandidate ==
    (ret.op = "find_central_dir" /\ LIBZIP_CHECKCONS \notin ret.flags /\ Cardinality(Parsed(ret.cands)) >= 2)
        => ret.cdir \in Parsed(ret.cands) /\ \A k \in Parsed(ret.cands) : k <= ret.cdir

\* C11 (amended): without CHECKCONS, of several candidates that parse the one
\* selected is the one whose entries are plausible (local headers agree, no
\* entry reaches into the directory) and span the largest range of file
\* positions, the first (lowest offset) among equals; if no candidate is
\* plausible, none is selected and the open fails.  A single candidate that
\* parses is selected unchecked.
C11_BestCandidate ==
    (ret.op = "find_central_dir" /\ LIBZIP_CHECKCONS \notin ret.flags)
        => /\ Cardinality(Parsed(ret.cands)) >= 2
                => IF \E k \in Parsed(ret.cands) : Plausible(ret.cands[k])
                   THEN ret.cdir = FirstBest(ret.cands) /\ ret.code = LIBZIP_ER_OK
                   ELSE ret.cdir = 0 /\ ret.code # LIBZIP_ER_OK
           /\ Cardinality(Parsed(ret.cands)) = 1
                => ret.cdir \in Parsed(ret.cands) /\ ret.code = LIBZIP_ER_OK

\* without CHECKCONS an earlier candidate was preferred to a later one that parses
C11_Witness ==
    /\ ret.op = "find_central_dir" /\ LIBZIP_CHECKCONS \notin ret.flags
    /\ ret.cdir \in Parsed(ret.cands)
    /\ \E k \in Parsed(ret.cands) : k > ret.cdir /\ Plausible(ret.cands[k])

\* C12 as stated: with CHECKCONS, of several candidates that parse the one
\* with the fewest mismatches between local and central headers is selected.
C12_FewestMismatches ==
    (ret.op = "find_central_dir" /\ LIBZIP_CHECKCONS \in ret.flags /\ Cardinality(Parsed(ret.cands)) >= 2)
        => /\ ret.cdir \in Parsed(ret.cands)
           /\ \A k \in Parsed(ret.cands) : Mismatches(ret.cands[ret.cdir]) <= Mismatches(ret.cands[k])

\* C12 (amended): with CHECKCONS, a candidate with any mismatch between a
\* local and a central header, or with an entry reaching into the directory,
\* is never selected; of the remaining candidates the one whose entries span
\* the largest range of file positions is selected, the first among equals;
\* if none remains, the open fails.
C12_BestMatch ==
    (ret.op = "find_central_dir" /\ LIBZIP_CHECKCONS \in ret.flags /\ Parsed(ret.cands) # {})
        => IF \E k \in Parsed(ret.cands) : Plausible(ret.cands[k])
           THEN /\ ret.cdir = FirstBest(ret.cands) /\ ret.code = LIBZIP_ER_OK
                /\ Mismatches(ret.cands[ret.cdir]) = 0
           ELSE ret.cdir = 0 /\ ret.code # LIBZIP_ER_OK

\* with CHECKCONS a later candidate replaced an earlier one that parses and
\* has a mismatching local header
C12_Witness ==
    /\ ret.op = "find_central_dir" /\ LIBZIP_CHECKCONS \in ret.flags
    /\ ret.cdir \in Parsed(ret.cands)
    /\ \E k \in Parsed(ret.cands) : k < ret.cdir /\ Mismatches(ret.cands[k]) > 0


(* ================= zip_open.c / zip_source_file_common.c: empty sources ================= *)
SourceKinds == {"file", "buffer"}

\* sizes of sources too short to hold an EOCD record
ShortSizes == {0, EOCDLEN - 1}

ShortSources == [kind : SourceKinds, size : ShortSizes]

\* a variant of the file source that answers the query with 1
read_file_accepting(cmd) == IF cmd = "ACCEPT_EMPTY" THEN 1 ELSE -1

\* the callback of a file source, for the command modelled here
read_file(cmd) == IF cmd = "ACCEPT_EMPTY" THEN 0 ELSE -1

\* a file source is asked through its callback; an in-memory buffer source
\* does not accept a zero-byte stream
libzip_source_accept_empty(src) == IF src.kind = "file" THEN read_file("ACCEPT_EMPTY") # 0 ELSE FALSE

\* _libzip_open on a source shorter than an EOCD record;
\* result: [ok, err, detail, entry, names]
_libzip_open_short(src, open_flags) ==
    Let(src.size, LAMBDA len :
        IF len = 0 /\ libzip_source_accept_empty(src)
        THEN OpenResult(TRUE, LIBZIP_ER_OK, 0, <<>>, EmptyHash)
        ELSE IF len < EOCDLEN
        THEN OpenResult(FALSE, LIBZIP_ER_NOZIP, 0, <<>>, EmptyHash)
        ELSE OpenResult(FALSE, LIBZIP_ER_INTERNAL, 0, <<>>, EmptyHash))

\* libzip_open_from_source on a source shorter than an EOCD record
LibzipOpenShort(src, flags, writable) ==
    /\ ~open
    /\ ret.op = "none"
    /\ \E flags1 \in {IF writable THEN flags ELSE flags \cup {LIBZIP_RDONLY}} :
       \E r \in {_libzip_open_short(src, flags1)} :
        /\ open' = r.ok
        /\ ch_flags' = IF r.ok /\ LIBZIP_RDONLY \in flags1 THEN {LIBZIP_AFL_RDONLY} ELSE {}
        /\ entry' = r.entry
        /\ names' = r.names
        /\ ret' = [op |-> "open_short", code |-> r.err, detail |-> r.detail, src |-> src,
                   flags |-> flags, writable |-> writable]
        /\ UNCHANGED <<cursor, table, layer, progress, fs, crc_src, comment, owner>>

OpenShort == \E src \in ShortSources, flags \in OpenFlagSets, writable \in BOOLEAN : LibzipOpenShort(src, flags, writable)

NextSource == OpenShort \/ Open
SpecSource == Init /\ [][NextSource]_vars

LIBZIP_FL_LOCAL == 256
LIBZIP_FL_CENTRAL == 512
LIBZIP_FL_FORCE_ZIP64 == 1024

\* A 64-bit quantity v is written as the pair <<v \div 65536, v % 65536>>,
\* so that values around 2^32 can be told apart.
LIBZIP_UINT32_MAX == <<65535, 65535>>

Lt64(a, b) == a[1] < b[1] \/ (a[1] = b[1] /\ a[2] < b[2])

Gt64(a, b) == Lt64(b, a)

Ge64(a, b) == ~Lt64(a, b)

\* 5, 2^32 - 2, 2^32 - 1, 2^32
SizeValues == {<<0, 5>>, <<65535, 65534>>, <<65535, 65535>>, <<65536, 0>>}

\* the fields of a dirent that decide about ZIP64
WriteDirents == [comp_size : SizeValues, uncomp_size : SizeValues, offset : SizeValues]

WriteFlagSets ==
    {{LIBZIP_FL_LOCAL}, {LIBZIP_FL_LOCAL, LIBZIP_FL_FORCE_ZIP64},
     {LIBZIP_FL_CENTRAL}, {LIBZIP_FL_CENTRAL, LIBZIP_FL_FORCE_ZIP64}}

\* a variant whose threshold is one too high
_libzip_dirent_needs_zip64_above(de, flags) ==
    \/ Gt64(de.uncomp_size, LIBZIP_UINT32_MAX)
    \/ Gt64(de.comp_size, LIBZIP_UINT32_MAX)
    \/ (LIBZIP_FL_CENTRAL \in flags /\ Gt64(de.offset, LIBZIP_UINT32_MAX))

_libzip_dirent_needs_zip64(de, flags) ==
    \/ Ge64(de.uncomp_size, LIBZIP_UINT32_MAX)
    \/ Ge64(de.comp_size, LIBZIP_UINT32_MAX)
    \/ (LIBZIP_FL_CENTRAL \in flags /\ Ge64(de.offset, LIBZIP_UINT32_MAX))

\* the value a 32-bit header field gets for a 64-bit quantity
Put32OrMax(v) == IF Lt64(v, LIBZIP_UINT32_MAX) THEN v ELSE LIBZIP_UINT32_MAX

\* the 64-bit values put into the ZIP64 extra field buffer
Zip64Payload(de, flags) ==
    IF LIBZIP_FL_LOCAL \in flags
    THEN IF \/ LIBZIP_FL_FORCE_ZIP64 \in flags
            \/ Gt64(de.comp_size, LIBZIP_UINT32_MAX)
            \/ Gt64(de.uncomp_size, LIBZIP_UINT32_MAX)
         THEN <<de.uncomp_size, de.comp_size>>
         ELSE <<>>
    ELSE IF \/ LIBZIP_FL_FORCE_ZIP64 \in flags
            \/ Gt64(de.comp_size, LIBZIP_UINT32_MAX)
            \/ Gt64(de.uncomp_size, LIBZIP_UINT32_MAX)
            \/ Gt64(de.offset, LIBZIP_UINT32_MAX)
         THEN (IF Ge64(de.uncomp_size, LIBZIP_UINT32_MAX) THEN <<de.uncomp_size>> ELSE <<>>)
              \o (IF Ge64(de.comp_size, LIBZIP_UINT32_MAX) THEN <<de.comp_size>> ELSE <<>>)
              \o (IF Ge64(de.offset, LIBZIP_UINT32_MAX) THEN <<de.offset>> ELSE <<>>)
         ELSE <<>>

\* the ZIP64-relevant part of the header written: the 32-bit size fields,
\* the offset field (central header only), the ZIP64 extra field and the
\* return value
_libzip_dirent_write(de, flags) ==
    Let(_libzip_dirent_needs_zip64(de, flags), LAMBDA is_really_zip64 :
    Let((LIBZIP_FL_LOCAL \in flags /\ LIBZIP_FL_FORCE_ZIP64 \in flags) \/ is_really_zip64, LAMBDA is_zip64 :
    Let(LIBZIP_FL_LOCAL \in flags
          /\ (Ge64(de.comp_size, LIBZIP_UINT32_MAX) \/ Ge64(de.uncomp_size, LIBZIP_UINT32_MAX)), LAMBDA both_max :
        [comp_size |-> IF both_max THEN LIBZIP_UINT32_MAX ELSE Put32OrMax(de.comp_size),
         uncomp_size |-> IF both_max THEN LIBZIP_UINT32_MAX ELSE Put32OrMax(de.uncomp_size),
         has_offset |-> LIBZIP_FL_LOCAL \notin flags,
         offset |-> IF LIBZIP_FL_LOCAL \notin flags THEN Put32OrMax(de.offset) ELSE <<0, 0>>,
         has_ef64 |-> is_zip64,
         ef64 |-> IF is_zip64 THEN Zip64Payload(de, flags) ELSE <<>>,
         ret |-> IF is_zip64 THEN 1 ELSE 0])))

\* _libzip_dirent_write called for one header
LibzipDirentWrite(de, flags) ==
    /\ ~open
    /\ ret.op = "none"
    /\ ret' = [op |-> "dirent_write", code |-> LIBZIP_ER_OK, de |-> de, flags |-> flags,
               hdr |-> _libzip_dirent_write(de, flags)]
    /\ UNCHANGED <<cursor, table, layer, progress, fs, crc_src, open, ch_flags, entry, names, comment, owner>>

DirentWrite ==
    /\ ret.op = "none"
    /\ \E de \in WriteDirents, flags \in WriteFlagSets : LibzipDirentWrite(de, flags)


(* ---------------- zip_dirent.c: writing the central directory ---------------- *)
LIBZIP_UINT16_MAX == 65535

\* numbers of entries written: 1, 2^16 - 2, 2^16 - 1, 2^16
SurvivorCounts == {1, 65534, 65535, 65536}

\* the end-of-directory records written for a central directory that starts
\* at offset, is size bytes long and has survivors entries; dirent_zip64
\* tells whether _libzip_dirent_write returned 1 for one of the entries
_libzip_cdir_write(offset, size, survivors, dirent_zip64) ==
    Let(dirent_zip64 \/ Gt64(offset, LIBZIP_UINT32_MAX) \/ survivors > LIBZIP_UINT16_MAX, LAMBDA is_zip64 :
        [has_eocd64 |-> is_zip64,
         eocd64 |-> IF is_zip64
                    THEN [nentry |-> survivors, size |-> size, offset |-> offset]
                    ELSE [nentry |-> 0, size |-> <<0, 0>>, offset |-> <<0, 0>>],
         eocd |-> [nentry |-> IF survivors >= LIBZIP_UINT16_MAX THEN LIBZIP_UINT16_MAX ELSE survivors,
                   size |-> IF Ge64(size, LIBZIP_UINT32_MAX) THEN LIBZIP_UINT32_MAX ELSE size,
                   offset |-> IF Ge64(offset, LIBZIP_UINT32_MAX) THEN LIBZIP_UINT32_MAX ELSE offset],
         ret |-> size])

\* _libzip_cdir_write called at the end of a commit
LibzipCdirWrite(offset, size, survivors, dirent_zip64) ==
    /\ ~open
    /\ ret.op = "none"
    /\ ret' = [op |-> "cdir_write", code |-> LIBZIP_ER_OK, offset |-> offset, size |-> size,
               survivors |-> survivors, dirent_zip64 |-> dirent_zip64,
               out |-> _libzip_cdir_write(offset, size, survivors, dirent_zip64)]
    /\ UNCHANGED <<cursor, table, layer, progress, fs, crc_src, open, ch_flags, entry, names, comment, owner>>

CdirWrite ==
    /\ ret.op = "none"
    /\ \E offset \in SizeValues, size \in SizeValues, survivors \in SurvivorCounts, dirent_zip64 \in BOOLEAN :
           LibzipCdirWrite(offset, size, survivors, dirent_zip64)

NextWrite == DirentWrite \/ CdirWrite
SpecWrite == Init /\ [][NextWrite]_vars

(* ---------------- C14: threshold of the ZIP64 extra field ---------------- *)
\* a header of a stored entry (both sizes equal) at a small offset, written
\* without LIBZIP_FL_FORCE_ZIP64
StoredEntryWritten ==
    /\ ret.op = "dirent_write"
    /\ ret.de.comp_size = ret.de.uncomp_size
    /\ Lt64(ret.de.offset, LIBZIP_UINT32_MAX)
    /\ LIBZIP_FL_FORCE_ZIP64 \notin ret.flags

\* C14: the local and the central header of a stored entry contain a ZIP64
\* extra field exactly when its size is >= 2^32 - 1: none at 2^32 - 2, one at
\* 2^32 - 1.
C14_Zip64Threshold ==
    StoredEntryWritten
        => /\ ret.hdr.has_ef64 <=> Ge64(ret.de.uncomp_size, LIBZIP_UINT32_MAX)
           /\ ret.de.uncomp_size = <<65535, 65534>> => ~ret.hdr.has_ef64 /\ ret.hdr.ret = 0
           /\ ret.de.uncomp_size = <<65535, 65535>> => ret.hdr.has_ef64 /\ ret.hdr.ret = 1

\* a stored entry of exactly 2^32 - 1 bytes was written with a ZIP64 extra field
C14_Witness ==
    StoredEntryWritten /\ ret.de.uncomp_size = <<65535, 65535>> /\ ret.hdr.has_ef64

(* ---------------- C15: the ZIP64 extra field matches the header ---------------- *)
\* the values a reader takes from the ZIP64 extra field of the header: one
\* for every field stored as 0xFFFFFFFF, in the order uncompressed size,
\* compressed size, offset
SentinelValues(de, hdr) ==
    (IF hdr.uncomp_size = LIBZIP_UINT32_MAX THEN <<de.uncomp_size>> ELSE <<>>)
    \o (IF hdr.comp_size = LIBZIP_UINT32_MAX THEN <<de.comp_size>> ELSE <<>>)
    \o (IF hdr.has_offset /\ hdr.offset = LIBZIP_UINT32_MAX THEN <<de.offset>> ELSE <<>>)

\* C15: every dirent with a size or (central header) offset >= 2^32 - 1 is
\* written with a ZIP64 extra field whose payload carries the 64-bit value of
\* every field stored as 0xFFFFFFFF in the fixed header.
C15_Zip64Matches ==
    (ret.op = "dirent_write" /\ LIBZIP_FL_FORCE_ZIP64 \notin ret.flags
       /\ _libzip_dirent_needs_zip64(ret.de, ret.flags))
        => ret.hdr.has_ef64 /\ ret.hdr.ef64 = SentinelValues(ret.de, ret.hdr)

(* ---------------- C16: EOCD64 ---------------- *)
\* C16: an EOCD64 record and its locator are written if the central directory
\* size or offset is >= 2^32 - 1 or the entry count is >= 2^16 - 1, so the
\* classic EOCD never carries 0xFFFF or 0xFFFFFFFF without an EOCD64.
C16_Eocd64Written ==
    ret.op = "cdir_write"
        => /\ (\/ Ge64(ret.size, LIBZIP_UINT32_MAX)
               \/ Ge64(ret.offset, LIBZIP_UINT32_MAX)
               \/ ret.survivors >= LIBZIP_UINT16_MAX) => ret.out.has_eocd64
           /\ (\/ ret.out.eocd.nentry = LIBZIP_UINT16_MAX
               \/ ret.out.eocd.size = LIBZIP_UINT32_MAX
               \/ ret.out.eocd.offset = LIBZIP_UINT32_MAX) => ret.out.has_eocd64


(* ---------------- zip_buffer.c: reading from a buffer ---------------- *)
MaxEfWords == 8

\* the 32-bit words an extra field is made of
EfWords == {0, 1}

\* a buffer over data of size bytes: data holds its complete 32-bit words
\* (little endian), tail the number of bytes after them
_libzip_buffer_new(data, tail) ==
    [data |-> data, size |-> 4 * Len(data) + tail, offset |-> 0, ok |-> TRUE]

_libzip_buffer_eof(buffer) == buffer.ok /\ buffer.offset = buffer.size

\* whether _libzip_buffer_peek returns data
_libzip_buffer_peek(buffer, length) == buffer.ok /\ buffer.offset + length <= buffer.size

\* the buffer after _libzip_buffer_get
_libzip_buffer_get(buffer, length) ==
    IF _libzip_buffer_peek(buffer, length)
    THEN [buffer EXCEPT !.offset = @ + length]
    ELSE [buffer EXCEPT !.ok = FALSE]

\* the value _libzip_buffer_get_32 returns
_libzip_buffer_get_32(buffer) ==
    IF _libzip_buffer_peek(buffer, 4) THEN buffer.data[buffer.offset \div 4 + 1] ELSE 0

\* the value _libzip_buffer_get_64 returns, as the limbs <<v \div 2^16, v % 2^16>>;
\* a 32-bit word with its top bit set is held as the negative integer with
\* the same bits, so its upper half is taken modulo 2^16
_libzip_buffer_get_64(buffer) ==
    IF _libzip_buffer_peek(buffer, 8)
    THEN <<buffer.data[buffer.offset \div 4 + 2] * 65536
             + ((buffer.data[buffer.offset \div 4 + 1] \div 65536) % 65536),
           buffer.data[buffer.offset \div 4 + 1] % 65536>>
    ELSE <<0, 0>>

_libzip_buffer_set_offset(buffer, offset) ==
    IF offset > buffer.size
    THEN [buffer EXCEPT !.ok = FALSE]
    ELSE [buffer EXCEPT !.ok = TRUE, !.offset = offset]

_libzip_buffer_skip(buffer, length) == _libzip_buffer_set_offset(buffer, buffer.offset + length)

(* ---------------- zip_dirent.c: the ZIP64 extra field of a header ---------------- *)
LIBZIP_ER_DETAIL_INVALID_ZIP64_EF == 14

\* header fields before the ZIP64 extra field is applied: a size or offset
\* is 1 or the marker 0xFFFFFFFF, a disk number 0 or the marker 0xFFFF; a
\* local header has no offset and no disk number (they are set to 0)
Ef64Dirents(local) ==
    {zde \in [uncomp_size : {<<0, 1>>, LIBZIP_UINT32_MAX}, comp_size : {<<0, 1>>, LIBZIP_UINT32_MAX},
              offset : {<<0, 0>>, <<0, 1>>, LIBZIP_UINT32_MAX}, disk_number : {0, LIBZIP_UINT16_MAX}] :
        /\ local => zde.offset = <<0, 0>> /\ zde.disk_number = 0
        /\ ~local => zde.offset # <<0, 0>>
        /\ LIBZIP_UINT32_MAX \in {zde.uncomp_size, zde.comp_size, zde.offset}}

EfData == SeqsUpTo(EfWords, MaxEfWords)

\* the state of libzip_dirent_process_ef_zip64 between two reads
Ef64State(zde, buffer) == [zde |-> zde, buffer |-> buffer]

Ef64Uncomp(st, local) ==
    IF st.zde.uncomp_size = LIBZIP_UINT32_MAX
    THEN Ef64State([st.zde EXCEPT !.uncomp_size = _libzip_buffer_get_64(st.buffer)], _libzip_buffer_get(st.buffer, 8))
    ELSE IF local THEN Ef64State(st.zde, _libzip_buffer_skip(st.buffer, 8))
    ELSE st

Ef64Comp(st) ==
    IF st.zde.comp_size = LIBZIP_UINT32_MAX
    THEN Ef64State([st.zde EXCEPT !.comp_size = _libzip_buffer_get_64(st.buffer)], _libzip_buffer_get(st.buffer, 8))
    ELSE st

Ef64Offset(st, local) ==
    IF ~local /\ st.zde.offset = LIBZIP_UINT32_MAX
    THEN Ef64State([st.zde EXCEPT !.offset = _libzip_buffer_get_64(st.buffer)], _libzip_buffer_get(st.buffer, 8))
    ELSE st

Ef64Disk(st, local) ==
    IF ~local /\ st.zde.disk_number = LIBZIP_UINT16_MAX
    THEN Ef64State([st.zde EXCEPT !.disk_number = _libzip_buffer_get_32(st.buffer)], _libzip_buffer_get(st.buffer, 4))
    ELSE st

\* case 24 of the switch: the three 64-bit values at offset 0 equal the header's
Ef64Case24(st) ==
    Let(_libzip_buffer_set_offset(st.buffer, 0), LAMBDA b0 :
    Let(_libzip_buffer_get(b0, 8), LAMBDA b8 :
    Let(_libzip_buffer_get(b8, 8), LAMBDA b16 :
        /\ st.zde.uncomp_size = _libzip_buffer_get_64(b0)
        /\ st.zde.comp_size = _libzip_buffer_get_64(b8)
        /\ st.zde.offset = _libzip_buffer_get_64(b16))))

\* case 28 of the switch, which falls through to case 24
Ef64Case28(st) ==
    /\ st.zde.disk_number = _libzip_buffer_get_32(_libzip_buffer_set_offset(st.buffer, 24))
    /\ Ef64Case24(st)

\* a variant that accepts additional fields only in the 28-byte form
Ef64Additional_28only(st, got_len) ==
    CASE got_len = 28 -> Ef64Case28(st)
      [] OTHER -> FALSE

\* the switch on got_len: whether the additional fields are accepted
Ef64Additional(st, got_len) ==
    CASE got_len = 28 -> Ef64Case28(st)
      [] got_len = 24 -> Ef64Case24(st)
      [] OTHER -> FALSE

Ef64Result(ok, zde, code, detail) == [ok |-> ok, zde |-> zde, code |-> code, detail |-> detail]

libzip_dirent_process_ef_zip64(zde, ef, tail, local, oom) ==
    IF oom THEN Ef64Result(FALSE, zde, LIBZIP_ER_MEMORY, 0)
    ELSE
    Let(Ef64Disk(Ef64Offset(Ef64Comp(Ef64Uncomp(Ef64State(zde, _libzip_buffer_new(ef, tail)), local)), local), local),
        LAMBDA st :
            IF ~_libzip_buffer_eof(st.buffer) /\ ~Ef64Additional(st, st.buffer.size)
            THEN Ef64Result(FALSE, st.zde, LIBZIP_ER_INCONS, LIBZIP_ER_DETAIL_INVALID_ZIP64_EF)
            ELSE Ef64Result(TRUE, st.zde, LIBZIP_ER_OK, 0))

\* libzip_dirent_process_ef_zip64 called for the ZIP64 extra field of a header
LibzipProcessEfZip64(zde, ef, tail, local, oom) ==
    /\ ~open
    /\ ret.op = "none"
    /\ \E r \in {libzip_dirent_process_ef_zip64(zde, ef, tail, local, oom)} :
           ret' = [op |-> "process_ef_zip64", code |-> r.code, detail |-> r.detail, ok |-> r.ok,
                   zde |-> zde, ef |-> ef, got_len |-> 4 * Len(ef) + tail, local |-> local, oom |-> oom,
                   out |-> r.zde]
    /\ UNCHANGED <<cursor, table, layer, progress, fs, crc_src, open, ch_flags, entry, names, comment, owner>>

ProcessEfZip64 ==
    /\ ret.op = "none"
    /\ \E local \in BOOLEAN, oom \in BOOLEAN, ef \in EfData, tail \in {0, 1} :
           \E zde \in Ef64Dirents(local) : LibzipProcessEfZip64(zde, ef, tail, local, oom)

NextEf == ProcessEfZip64
SpecEf == Init /\ [][NextEf]_vars


(* ---------------- C17: additional bytes in a ZIP64 extra field ---------------- *)
\* the number of bytes the header's markers select (a local header always
\* has the place of the uncompressed size)
Ef64Needed(zde, local) ==
    (IF zde.uncomp_size = LIBZIP_UINT32_MAX \/ local THEN 8 ELSE 0)
    + (IF zde.comp_size = LIBZIP_UINT32_MAX THEN 8 ELSE 0)
    + (IF ~local /\ zde.offset = LIBZIP_UINT32_MAX THEN 8 ELSE 0)
    + (IF ~local /\ zde.disk_number = LIBZIP_UINT16_MAX THEN 4 ELSE 0)

\* the 64-bit value at byte k of the extra field
Ef64ValueAt(ef, k) == <<ef[k \div 4 + 2] * 65536, ef[k \div 4 + 1]>>

\* the three 64-bit values (and, in the 28-byte form, the disk number) of
\* the extra field equal the values of the header zde
Ef64FormMatches(ef, got_len, zde) ==
    /\ Ef64ValueAt(ef, 0) = zde.uncomp_size
    /\ Ef64ValueAt(ef, 8) = zde.comp_size
    /\ Ef64ValueAt(ef, 16) = zde.offset
    /\ got_len = 28 => ef[7] = zde.disk_number

\* the extra field was parsed and has bytes left after the selected fields
Ef64Residual ==
    /\ ret.op = "process_ef_zip64"
    /\ ~ret.oom
    /\ ret.got_len > Ef64Needed(ret.zde, ret.local)

\* C17 as stated: residual bytes are accepted only in the full 28-byte form
\* with matching values; every other residual is rejected with
\* INVALID_ZIP64_EF.
C17_Only28Accepted ==
    Ef64Residual
        => /\ ret.ok <=> (ret.got_len = 28 /\ Ef64FormMatches(ret.ef, ret.got_len, ret.out))
           /\ ~ret.ok => ret.code = LIBZIP_ER_INCONS /\ ret.detail = LIBZIP_ER_DETAIL_INVALID_ZIP64_EF

\* C17: residual bytes are accepted exactly when the extra field is 24 bytes
\* (three 64-bit values) or 28 bytes (with the disk number) long and its
\* values equal the header's values; every other residual is rejected with
\* INCONS / INVALID_ZIP64_EF.
C17_AdditionalFields ==
    Ef64Residual
        => /\ ret.ok <=> (ret.got_len \in {24, 28} /\ Ef64FormMatches(ret.ef, ret.got_len, ret.out))
           /\ ~ret.ok => ret.code = LIBZIP_ER_INCONS /\ ret.detail = LIBZIP_ER_DETAIL_INVALID_ZIP64_EF
           /\ ret.ok => ret.code = LIBZIP_ER_OK

\* a 24-byte extra field with residual bytes was accepted
C17_Witness ==
    Ef64Residual /\ ret.got_len = 24 /\ ret.ok /\ ret.zde.uncomp_size = LIBZIP_UINT32_MAX


(* ---------------- zlib crc32, as zip_source_crc.c uses it ---------------- *)
\* a 32-bit word is the set of the positions of its 1 bits (0 the lowest)
Xor32(a, b) == (a \ b) \cup (b \ a)
Not32(a) == (0..31) \ a
Shr32(a) == {i - 1 : i \in a \ {0}}

\* the reflected CRC-32 polynomial 0xEDB88320
Crc32Poly == {31, 30, 29, 27, 26, 24, 23, 21, 20, 19, 15, 9, 8, 5}

\* the bits of a byte
ByteBits(b) == {i \in 0..7 : (b \div (2 ^ i)) % 2 = 1}

RECURSIVE Crc32Shift(_, _)
\* k steps of the bitwise CRC
Crc32Shift(c, k) ==
    IF k = 0 THEN c
    ELSE Crc32Shift(IF 0 \in c THEN Xor32(Shr32(c), Crc32Poly) ELSE Shr32(c), k - 1)

RECURSIVE Crc32Update(_, _)
\* the CRC register after the bytes of buf
Crc32Update(c, buf) ==
    IF buf = <<>> THEN c
    ELSE Crc32Update(Crc32Shift(Xor32(c, ByteBits(Head(buf))), 8), Tail(buf))

\* crc32(crc, buf, len): the running CRC-32 crc continued over buf
crc32(crc, buf) == Not32(Crc32Update(Not32(crc), buf))

(* ---------------- zip_source_crc.c: the CRC layer ---------------- *)
MaxData == 2

LIBZIP_ER_SEEK == 4
LIBZIP_ER_READ == 5
LIBZIP_ER_EOF == 17
LIBZIP_ER_ENCRNOTSUPP == 24
LIBZIP_ER_WRONGPASSWD == 27
LIBZIP_ER_OPNOTSUPP == 28
LIBZIP_ER_CRC == 7
LIBZIP_ER_DATA_LENGTH == 33
LIBZIP_STAT_SIZE == 4
LIBZIP_STAT_CRC == 32
LIBZIP_ER_DETAIL_INVALID_FILE_LENGTH == 17
MAX_DETAIL_INDEX == 8388607

Bytes == {0, 1}

\* the data the lower source delivers
StreamData == SeqsUpTo(Bytes, MaxData)

\* what the lower source answers to STAT for a stream with this data: the
\* CRC and the size of the data or different ones, each valid or not
LowerStats(data) ==
    [valid : SUBSET {LIBZIP_STAT_CRC, LIBZIP_STAT_SIZE},
     crc : {crc32({}, data), crc32({}, data \o <<1>>)},
     size : {Len(data), Len(data) + 1}]

ZipError(zip_err, sys_err) == [zip_err |-> zip_err, sys_err |-> sys_err]

\* the error of the lower source after its command failed
LowerError(command) ==
    IF command = "SEEK" THEN ZipError(LIBZIP_ER_SEEK, 2) ELSE ZipError(LIBZIP_ER_READ, 1)

\* struct crc_context after libzip_source_crc_create; position is not
\* initialized there and holds whatever the allocation contained
CrcContext(validate, position) ==
    [validate |-> validate, crc_complete |-> FALSE, error |-> ZipError(LIBZIP_ER_OK, 0), size |-> 0,
     position |-> position, crc_position |-> 0, crc |-> crc32({}, <<>>)]

\* what one command of crc_read leaves: the context, the read offset of the
\* lower source, the return value n, the stat it filled, the positions of
\* the data folded into the CRC during the call, and whether the call
\* compared CRC and size ("none" if it did not)
CrcReadResult(ctx, offset, n, st, folded, verdict) ==
    [ctx |-> ctx, offset |-> offset, n |-> n, st |-> st, folded |-> folded, verdict |-> verdict]

\* the answers of libzip_source_read(src, data, len) on the lower source at
\* offset: -1, or 0 at the end of the data, or up to len bytes
LowerReadResults(data, offset, len) ==
    {-1} \cup (IF offset >= Len(data) THEN {0}
               ELSE {k \in 1..len : offset + k <= Len(data)})

\* crc_read, case LIBZIP_SOURCE_OPEN
crc_read_OPEN(cs) ==
    CrcReadResult([cs.ctx EXCEPT !.position = 0], cs.offset, 0, cs.st, <<>>, "none")

\* whether the end of the data was reached where the CRC computation is
CrcAtExpectedPosition_any(ctx) == TRUE

CrcAtExpectedPosition(ctx) == ctx.crc_position = ctx.position

\* the comparison with the lower source's stat without the size
CrcValidate_crc_only(ctx, st) ==
    IF LIBZIP_STAT_CRC \in st.valid /\ st.crc # ctx.crc
    THEN [verdict |-> "crc", error |-> ZipError(LIBZIP_ER_CRC, 0)]
    ELSE [verdict |-> "ok", error |-> ctx.error]

\* the comparison with the lower source's stat when validate is set
CrcValidate(ctx, st) ==
    IF LIBZIP_STAT_CRC \in st.valid /\ st.crc # ctx.crc
    THEN [verdict |-> "crc", error |-> ZipError(LIBZIP_ER_CRC, 0)]
    ELSE IF LIBZIP_STAT_SIZE \in st.valid /\ st.size # ctx.size
    THEN [verdict |-> "length",
          error |-> ZipError(LIBZIP_ER_INCONS,
                             MAKE_DETAIL_WITH_INDEX(LIBZIP_ER_DETAIL_INVALID_FILE_LENGTH, MAX_DETAIL_INDEX))]
    ELSE [verdict |-> "ok", error |-> ctx.error]

\* crc_read, case LIBZIP_SOURCE_READ, n == 0
crc_read_READ_eof(cs, stat_fails) ==
    IF ~CrcAtExpectedPosition(cs.ctx)
    THEN CrcReadResult(cs.ctx, cs.offset, 0, cs.st, <<>>, "none")
    ELSE Let([cs.ctx EXCEPT !.crc_complete = TRUE, !.size = cs.ctx.position], LAMBDA ctx :
         IF ~ctx.validate THEN CrcReadResult(ctx, cs.offset, 0, cs.st, <<>>, "none")
         ELSE IF stat_fails
         THEN CrcReadResult([ctx EXCEPT !.error = LowerError("STAT")], cs.offset, -1, cs.st, <<>>, "none")
         ELSE Let(CrcValidate(ctx, cs.st), LAMBDA v :
                  CrcReadResult([ctx EXCEPT !.error = v.error], cs.offset,
                                IF v.verdict = "ok" THEN 0 ELSE -1, cs.st, <<>>, v.verdict)))

\* crc_read, case LIBZIP_SOURCE_READ, n > 0: the lower source delivered
\* data[offset + 1 .. offset + n]
crc_read_READ_data(cs, n) ==
    Let(cs.ctx.crc_position - cs.ctx.position, LAMBDA i :
        IF ~cs.ctx.crc_complete /\ cs.ctx.position <= cs.ctx.crc_position /\ i < n
        THEN CrcReadResult([cs.ctx EXCEPT !.crc = crc32(@, SubSeq(cs.data, cs.offset + i + 1, cs.offset + n)),
                                          !.crc_position = @ + (n - i),
                                          !.position = @ + n],
                           cs.offset + n, n, cs.st,
                           [k \in 1..(n - i) |-> cs.offset + i + k], "none")
        ELSE CrcReadResult([cs.ctx EXCEPT !.position = @ + n], cs.offset + n, n, cs.st, <<>>, "none"))

\* crc_read, case LIBZIP_SOURCE_READ; n is the answer of the lower source
crc_read_READ(cs, n, stat_fails) ==
    IF n < 0
    THEN CrcReadResult([cs.ctx EXCEPT !.error = LowerError("READ")], cs.offset, -1, cs.st, <<>>, "none")
    ELSE IF n = 0 THEN crc_read_READ_eof(cs, stat_fails)
    ELSE crc_read_READ_data(cs, n)

\* crc_read, case LIBZIP_SOURCE_CLOSE
crc_read_CLOSE(cs) == CrcReadResult(cs.ctx, cs.offset, 0, cs.st, <<>>, "none")

\* crc_read, case LIBZIP_SOURCE_STAT; st is the stat the lower source filled
crc_read_STAT(cs, st) ==
    IF ~cs.ctx.crc_complete THEN CrcReadResult(cs.ctx, cs.offset, 0, st, <<>>, "none")
    ELSE IF LIBZIP_STAT_SIZE \in st.valid /\ st.size # cs.ctx.size
    THEN CrcReadResult([cs.ctx EXCEPT !.error = ZipError(LIBZIP_ER_DATA_LENGTH, 0)], cs.offset, -1, st, <<>>, "length")
    ELSE CrcReadResult(cs.ctx, cs.offset, 0,
                       [valid |-> st.valid \cup {LIBZIP_STAT_SIZE, LIBZIP_STAT_CRC},
                        crc |-> cs.ctx.crc, size |-> cs.ctx.size], <<>>, "none")

\* crc_read, case LIBZIP_SOURCE_SEEK with SEEK_SET: the lower source rejects
\* an offset beyond its data
crc_read_SEEK(cs, offset) ==
    IF offset > Len(cs.data)
    THEN CrcReadResult([cs.ctx EXCEPT !.error = LowerError("SEEK")], cs.offset, -1, cs.st, <<>>, "none")
    ELSE CrcReadResult([cs.ctx EXCEPT !.position = offset], offset, 0, cs.st, <<>>, "none")

\* _libzip_source_call on the layered source: the callback's result r; after
\* a negative return the source's error is the one of the context. folded
\* lists the positions of the data folded into the CRC so far, reported
\* tells whether a call since the last OPEN failed with CRC
SourceCall(cs, cmd, args, r) ==
    /\ crc_src' = [cs EXCEPT !.ctx = r.ctx, !.offset = r.offset,
                             !.error = IF r.n < 0 THEN r.ctx.error ELSE @,
                             !.folded = @ \o r.folded,
                             !.reported = @ \/ (r.n < 0 /\ r.ctx.error.zip_err = LIBZIP_ER_CRC)]
    /\ ret' = [op |-> "source_call", cmd |-> cmd, args |-> args, n |-> r.n,
               code |-> IF r.n < 0 THEN r.ctx.error.zip_err ELSE LIBZIP_ER_OK,
               detail |-> IF r.n < 0 THEN r.ctx.error.sys_err ELSE 0,
               st |-> r.st, verdict |-> r.verdict, before |-> cs.ctx]
    /\ UNCHANGED <<cursor, table, layer, progress, fs, open, ch_flags, entry, names, comment, owner>>

\* libzip_source_crc_create over a lower source with this data and stat
LibzipSourceCrcCreate(data, st, validate, position, oom) ==
    /\ ~open
    /\ ret.op = "none"
    /\ ~crc_src.created
    /\ IF oom
       THEN /\ ret' = [op |-> "source_crc_create", code |-> LIBZIP_ER_MEMORY]
            /\ UNCHANGED crc_src
       ELSE /\ ret' = [op |-> "source_crc_create", code |-> LIBZIP_ER_OK]
            /\ crc_src' = [created |-> TRUE, is_open |-> FALSE, data |-> data, offset |-> 0, st |-> st,
                           ctx |-> CrcContext(validate, position), error |-> ZipError(LIBZIP_ER_OK, 0),
                           folded |-> <<>>, reported |-> FALSE]
    /\ UNCHANGED <<cursor, table, layer, progress, fs, open, ch_flags, entry, names, comment, owner>>

\* libzip_source_open: the lower source is opened and reads from offset 0
LibzipSourceOpen ==
    /\ crc_src.created /\ ~crc_src.is_open
    /\ SourceCall([crc_src EXCEPT !.is_open = TRUE, !.offset = 0, !.reported = FALSE],
                  "OPEN", <<>>, crc_read_OPEN([crc_src EXCEPT !.offset = 0]))

\* libzip_source_read of len bytes
LibzipSourceRead(len, n, stat_fails) ==
    /\ crc_src.created /\ crc_src.is_open
    /\ n \in LowerReadResults(crc_src.data, crc_src.offset, len)
    /\ stat_fails => n = 0
    /\ SourceCall(crc_src, "READ", [len |-> len, lower_n |-> n, stat_fails |-> stat_fails], crc_read_READ(crc_src, n, stat_fails))

\* libzip_source_seek(src, offset, SEEK_SET)
LibzipSourceSeek(offset) ==
    /\ crc_src.created /\ crc_src.is_open
    /\ SourceCall(crc_src, "SEEK", [offset |-> offset], crc_read_SEEK(crc_src, offset))

\* libzip_source_stat: the lower source fills the stat, then the layer
LibzipSourceStat ==
    /\ crc_src.created
    /\ SourceCall(crc_src, "STAT", <<>>, crc_read_STAT(crc_src, crc_src.st))

\* libzip_source_close
LibzipSourceClose ==
    /\ crc_src.created /\ crc_src.is_open
    /\ SourceCall([crc_src EXCEPT !.is_open = FALSE], "CLOSE", <<>>, crc_read_CLOSE(crc_src))

SourceCrcCreate ==
    /\ ret.op = "none"
    /\ \E data \in StreamData, validate \in BOOLEAN, position \in 0..MaxData, oom \in BOOLEAN :
           \E st \in LowerStats(data) : LibzipSourceCrcCreate(data, st, validate, position, oom)

SourceOpen == LibzipSourceOpen
SourceRead == \E len \in 1..(MaxData + 1), n \in -1..MaxData, stat_fails \in BOOLEAN : LibzipSourceRead(len, n, stat_fails)
SourceSeek == \E offset \in 0..(MaxData + 1) : LibzipSourceSeek(offset)
SourceStat == LibzipSourceStat
SourceClose == LibzipSourceClose

NextCrc == SourceCrcCreate \/ SourceOpen \/ SourceRead \/ SourceSeek \/ SourceStat \/ SourceClose
SpecCrc == Init /\ [][NextCrc]_vars


(* ---------------- C19: the comparison at the end of the data ---------------- *)
\* a READ for which the lower source returned 0 at the position up to which
\* the CRC was computed, in a validating layer whose lower source answers STAT
CrcEndReached ==
    /\ ret.op = "source_call" /\ ret.cmd = "READ"
    /\ ret.args.lower_n = 0 /\ ~ret.args.stat_fails
    /\ ret.before.validate
    /\ ret.before.crc_position = ret.before.position

CrcMismatch == LIBZIP_STAT_CRC \in crc_src.st.valid /\ crc_src.st.crc # ret.before.crc
SizeMismatch == LIBZIP_STAT_SIZE \in crc_src.st.valid /\ crc_src.st.size # ret.before.position

\* C19 as stated: at the end of the data a CRC mismatch raises CRC and a size
\* mismatch raises DATA_LENGTH.
C19_DataLength ==
    CrcEndReached
        => /\ CrcMismatch => ret.n = -1 /\ ret.code = LIBZIP_ER_CRC
           /\ (~CrcMismatch /\ SizeMismatch) => ret.n = -1 /\ ret.code = LIBZIP_ER_DATA_LENGTH
           /\ (~CrcMismatch /\ ~SizeMismatch) => ret.n = 0

\* C19: at the end of the data a validating layer compares its CRC with the
\* stat's CRC (if valid) and then its position with the stat's size (if
\* valid): a CRC mismatch raises CRC, a size mismatch raises INCONS with
\* detail INVALID_FILE_LENGTH.
C19_Comparison ==
    CrcEndReached
        => /\ CrcMismatch => ret.n = -1 /\ ret.code = LIBZIP_ER_CRC /\ ret.detail = 0
           /\ (~CrcMismatch /\ SizeMismatch)
                 => /\ ret.n = -1 /\ ret.code = LIBZIP_ER_INCONS
                    /\ ret.detail = MAX_DETAIL_INDEX * 256 + LIBZIP_ER_DETAIL_INVALID_FILE_LENGTH
           /\ (~CrcMismatch /\ ~SizeMismatch) => ret.n = 0 /\ ret.code = LIBZIP_ER_OK
           /\ crc_src.ctx.crc_complete /\ crc_src.ctx.size = ret.before.position

\* the read at the end of the data found the size different from the stat's
C19_Witness ==
    CrcEndReached /\ ~CrcMismatch /\ SizeMismatch /\ ret.code = LIBZIP_ER_INCONS /\ Len(crc_src.data) = MaxData

(* ---------------- C20: verification only after sequential consumption ---------------- *)
\* every position of the data, once and in order
WholeStream == [k \in 1..Len(crc_src.data) |-> k]

\* a call compared the CRC or the size
CrcVerdict == ret.op = "source_call" /\ ret.cmd \in {"READ", "STAT"} /\ ret.verdict # "none"

\* C20: the CRC always covers a prefix of the data, folded once and in
\* order, and a CRC or size verdict (and crc_complete) occurs only when this
\* prefix is the whole stream.
C20_VerifiesWholeStream ==
    crc_src.created
        => /\ crc_src.folded = [k \in 1..crc_src.ctx.crc_position |-> k]
           /\ crc_src.ctx.crc_position <= Len(crc_src.data)
           /\ crc_src.ctx.crc = crc32({}, SubSeq(crc_src.data, 1, crc_src.ctx.crc_position))
           /\ (CrcVerdict \/ crc_src.ctx.crc_complete) => crc_src.folded = WholeStream

\* a verdict on a stream of MaxData bytes
C20_Witness ==
    crc_src.created /\ CrcVerdict /\ ret.cmd = "READ" /\ Len(crc_src.data) = MaxData /\ crc_src.folded = WholeStream

(* ---------------- C18: a CRC mismatch is reported ---------------- *)
\* C18: when an entry whose stored CRC differs from the CRC of its data has
\* been read to its end and is closed, a read or the close has reported CRC.
C18_CrcReported ==
    (/\ crc_src.created
     /\ ret.op = "source_call" /\ ret.cmd = "CLOSE"
     /\ crc_src.ctx.validate
     /\ LIBZIP_STAT_CRC \in crc_src.st.valid /\ crc_src.st.crc # crc32({}, crc_src.data)
     /\ Len(crc_src.data) > 0
     /\ crc_src.ctx.position = Len(crc_src.data) /\ crc_src.ctx.crc_position = Len(crc_src.data))
        => crc_src.reported


(* ---------------- layered sources: common parts ---------------- *)
\* the state of the archive is left alone by the calls on a layered source
ArchiveUnchanged == UNCHANGED <<cursor, table, open, ch_flags, entry, names, comment, owner, crc_src, progress, fs>>

\* a dispatcher that invokes the callback whatever the source supports
_libzip_source_call_unchecked(l, command, r) ==
    [layer |-> [r.layer EXCEPT !.error = IF r.n < 0 /\ command \notin {"ERROR", "SUPPORTS"}
                                         THEN r.layer.ctx.error ELSE @],
     n |-> r.n, called |-> TRUE]

\* _libzip_source_call on the layered source l: r is what the callback
\* returns if it is invoked; after a negative return the source's error is
\* the one the callback reports for LIBZIP_SOURCE_ERROR, the error of its
\* context
_libzip_source_call(l, command, r) ==
    IF command \notin l.supports
    THEN [layer |-> [l EXCEPT !.error = ZipError(LIBZIP_ER_OPNOTSUPP, 0)], n |-> -1, called |-> FALSE]
    ELSE [layer |-> [r.layer EXCEPT !.error = IF r.n < 0 /\ command \notin {"ERROR", "SUPPORTS"}
                                              THEN IF "ERROR" \in l.supports THEN r.layer.ctx.error
                                                   ELSE ZipError(LIBZIP_ER_INTERNAL, 0)
                                              ELSE @],
          n |-> r.n, called |-> TRUE]

\* a call of a command on the layered source: called tells whether the
\* callback was invoked, lower_failed which command that the callback issued
\* on the lower source failed, reported whether a call since the last OPEN
\* failed with CRC
LayerCall(l, cmd, args, r) ==
    /\ \E c \in {_libzip_source_call(l, cmd, r)} :
           /\ layer' = [c.layer EXCEPT !.reported = @ \/ (c.n < 0 /\ c.layer.error.zip_err = LIBZIP_ER_CRC),
                                       !.lower_failed = "none"]
           /\ ret' = [op |-> "layer_call", kind |-> l.kind, cmd |-> cmd, args |-> args, n |-> c.n,
                      code |-> IF c.n < 0 THEN c.layer.error.zip_err ELSE LIBZIP_ER_OK,
                      detail |-> IF c.n < 0 THEN c.layer.error.sys_err ELSE 0,
                      called |-> c.called,
                      lower_failed |-> IF c.called THEN c.layer.lower_failed ELSE "none",
                      before |-> l]
    /\ ArchiveUnchanged

LayerResult(l, n) == [layer |-> l, n |-> n]

\* a callback fails with this error
LayerFail(l, zip_err, sys_err) ==
    LayerResult([l EXCEPT !.ctx.error = ZipError(zip_err, sys_err)], -1)

\* a callback that fails after command failed on the lower source without
\* taking the error of the lower source
LayerFailFromSource_internal(l, command) ==
    LayerResult([l EXCEPT !.ctx.error = ZipError(LIBZIP_ER_INTERNAL, 0), !.lower_failed = command], -1)

\* a callback fails after command failed on the lower source:
\* libzip_error_set_from_source
LayerFailFromSource(l, command) ==
    LayerResult([l EXCEPT !.ctx.error = LowerError(command), !.lower_failed = command], -1)

(* ---------------- the WinZip AES interface ---------------- *)
LIBZIP_EM_NONE == 0
LIBZIP_EM_AES_128 == 257
LIBZIP_EM_AES_192 == 258
LIBZIP_EM_AES_256 == 259
WINLIBZIP_AES_PASSWORD_VERIFY_LENGTH == 2
HMAC_LENGTH == 10
LIBZIP_CODEC_ENCODE == 1

AesMethods == {LIBZIP_EM_AES_128, LIBZIP_EM_AES_192, LIBZIP_EM_AES_256}

SALT_LENGTH(method) ==
    IF method = LIBZIP_EM_AES_128 THEN 8 ELSE IF method = LIBZIP_EM_AES_192 THEN 12 ELSE 16

Passwords == {"p", "q", "r"}
Salts == {0, 1}

PasswordNumber(password) == CASE password = "p" -> 0 [] password = "q" -> 1 [] OTHER -> 2

\* _libzip_winlibzip_aes_new: the keys derived from password and salt, and
\* the password verification value, which is shorter than the keys: the
\* passwords "p" and "r" have the same one
_libzip_winlibzip_aes_new(password, salt) ==
    [key |-> <<password, salt>>,
     password_verification |-> (PasswordNumber(password) + salt) % 2,
     counter |-> 0,
     hmac |-> <<>>]

\* the keystream bit for the byte at position counter
AesKeystream(aes_ctx) == (PasswordNumber(aes_ctx.key[1]) + aes_ctx.key[2] + aes_ctx.counter) % 2

RECURSIVE AesCrypt(_, _)
\* the data after the keystream was applied, in counter mode
AesCrypt(aes_ctx, data) ==
    IF data = <<>> THEN <<>>
    ELSE <<(Head(data) + AesKeystream(aes_ctx)) % 2>>
         \o AesCrypt([aes_ctx EXCEPT !.counter = @ + 1], Tail(data))

\* _libzip_winlibzip_aes_decrypt: the HMAC takes the ciphertext, then the
\* data is decrypted
_libzip_winlibzip_aes_decrypt(aes_ctx, data) ==
    [aes_ctx |-> [aes_ctx EXCEPT !.counter = @ + Len(data), !.hmac = @ \o data],
     data |-> AesCrypt(aes_ctx, data)]

\* _libzip_winlibzip_aes_encrypt: the data is encrypted, then the HMAC takes
\* the ciphertext
_libzip_winlibzip_aes_encrypt(aes_ctx, data) ==
    [aes_ctx |-> [aes_ctx EXCEPT !.counter = @ + Len(data), !.hmac = @ \o AesCrypt(aes_ctx, data)],
     data |-> AesCrypt(aes_ctx, data)]

\* _libzip_winlibzip_aes_finish: the HMAC of the ciphertext under the key
_libzip_winlibzip_aes_finish(aes_ctx) == [key |-> aes_ctx.key, data |-> aes_ctx.hmac]

NoAes == [key |-> <<>>]

(* ---------------- zip_source_winzip_aes_decode.c ---------------- *)
\* the encrypted data of an entry: written with password, salt and plain
\* data, its authentication code intact or not
AesStreams ==
    {[salt |-> salt,
      password_verification |-> _libzip_winlibzip_aes_new(pw, salt).password_verification,
      cipher |-> AesCrypt(_libzip_winlibzip_aes_new(pw, salt), plain),
      hmac |-> IF intact
               THEN _libzip_winlibzip_aes_finish(
                        _libzip_winlibzip_aes_encrypt(_libzip_winlibzip_aes_new(pw, salt), plain).aes_ctx)
               ELSE [key |-> <<>>, data |-> <<>>]] :
        pw \in Passwords, salt \in Salts, plain \in StreamData, intact \in BOOLEAN}

\* libzip_source_winlibzip_aes_decode: the layered source, or the error
libzip_source_winlibzip_aes_decode(stream, comp_size_valid, comp_size, encryption_method, flags, password, oom) ==
    IF encryption_method \notin AesMethods THEN [ok |-> FALSE, code |-> LIBZIP_ER_INVAL]
    ELSE IF LIBZIP_CODEC_ENCODE \in flags THEN [ok |-> FALSE, code |-> LIBZIP_ER_ENCRNOTSUPP]
    ELSE IF ~comp_size_valid
            \/ comp_size < WINLIBZIP_AES_PASSWORD_VERIFY_LENGTH + SALT_LENGTH(encryption_method) + HMAC_LENGTH
    THEN [ok |-> FALSE, code |-> LIBZIP_ER_OPNOTSUPP]
    ELSE IF oom THEN [ok |-> FALSE, code |-> LIBZIP_ER_MEMORY]
    ELSE [ok |-> TRUE, code |-> LIBZIP_ER_OK,
          layer |-> [kind |-> "aes_decode", is_open |-> FALSE, stream |-> stream, lower |-> "closed",
                     supports |-> {"OPEN", "READ", "CLOSE", "STAT", "ERROR", "FREE", "SUPPORTS_REOPEN"},
                     lower_failed |-> "none",
                     error |-> ZipError(LIBZIP_ER_OK, 0), delivered |-> <<>>, reported |-> FALSE,
                     ctx |-> [password |-> password, encryption_method |-> encryption_method,
                              data_length |-> comp_size - (WINLIBZIP_AES_PASSWORD_VERIFY_LENGTH
                                                           + SALT_LENGTH(encryption_method) + HMAC_LENGTH),
                              current_position |-> 0, aes_ctx |-> NoAes,
                              error |-> ZipError(LIBZIP_ER_OK, 0)]]]

\* a decrypt_header that does not compare the verification value
decrypt_header_unverified(l, n) ==
    IF n < 0 THEN LayerFailFromSource(l, "READ")
    ELSE IF n # WINLIBZIP_AES_PASSWORD_VERIFY_LENGTH + SALT_LENGTH(l.ctx.encryption_method)
    THEN LayerFail(l, LIBZIP_ER_EOF, 0)
    ELSE LayerResult([l EXCEPT !.ctx.aes_ctx = _libzip_winlibzip_aes_new(l.ctx.password, l.stream.salt),
                               !.lower = "data"], 0)

\* decrypt_header; n is what the lower source returned for the header
decrypt_header(l, n) ==
    IF n < 0 THEN LayerFailFromSource(l, "READ")
    ELSE IF n # WINLIBZIP_AES_PASSWORD_VERIFY_LENGTH + SALT_LENGTH(l.ctx.encryption_method)
    THEN LayerFail(l, LIBZIP_ER_EOF, 0)
    ELSE IF _libzip_winlibzip_aes_new(l.ctx.password, l.stream.salt).password_verification
            # l.stream.password_verification
    THEN LayerFail([l EXCEPT !.ctx.aes_ctx = NoAes, !.lower = "data"], LIBZIP_ER_WRONGPASSWD, 0)
    ELSE LayerResult([l EXCEPT !.ctx.aes_ctx = _libzip_winlibzip_aes_new(l.ctx.password, l.stream.salt),
                               !.lower = "data"], 0)

\* winlibzip_aes_decrypt, case LIBZIP_SOURCE_OPEN
winlibzip_aes_decrypt_OPEN(l, n) ==
    Let(decrypt_header(l, n), LAMBDA r :
        IF r.n < 0 THEN r
        ELSE LayerResult([r.layer EXCEPT !.ctx.current_position = 0], 0))

\* verify_hmac; n is what the lower source returned for the HMAC_LENGTH bytes
\* after the data (its error is a read error when it failed, none otherwise)
verify_hmac(l, n) ==
    IF n < 0 THEN LayerFailFromSource([l EXCEPT !.lower = "end"], "READ")
    ELSE IF n < HMAC_LENGTH THEN LayerFail([l EXCEPT !.lower = "end"], LIBZIP_ER_OK, 0)
    ELSE IF l.stream.hmac # _libzip_winlibzip_aes_finish(l.ctx.aes_ctx)
    THEN LayerFail([l EXCEPT !.ctx.aes_ctx = NoAes, !.lower = "end"], LIBZIP_ER_CRC, 0)
    ELSE LayerResult([l EXCEPT !.ctx.aes_ctx = NoAes, !.lower = "end"], 0)

\* winlibzip_aes_decrypt, case LIBZIP_SOURCE_READ; n is what the lower
\* source returned for the read the layer issued
winlibzip_aes_decrypt_READ(l, length, n) ==
    Let(IF length > l.ctx.data_length - l.ctx.current_position
        THEN l.ctx.data_length - l.ctx.current_position ELSE length, LAMBDA len :
        IF len = 0 THEN verify_hmac(l, n)
        ELSE IF n < 0 THEN LayerFailFromSource(l, "READ")
        ELSE Let(_libzip_winlibzip_aes_decrypt(l.ctx.aes_ctx,
                     SubSeq(l.stream.cipher, l.ctx.current_position + 1, l.ctx.current_position + n)),
                 LAMBDA d :
                     LayerResult([l EXCEPT !.ctx.current_position = @ + n,
                                           !.ctx.aes_ctx = d.aes_ctx,
                                           !.delivered = @ \o d.data], n)))

\* winlibzip_aes_decrypt, case LIBZIP_SOURCE_CLOSE
winlibzip_aes_decrypt_CLOSE(l) == LayerResult(l, 0)

\* what libzip_source_read on the lower source returns to the decode layer
\* for a READ of length bytes: -1, or fewer bytes than asked for, or all
AesDecodeLowerReads(l, length) ==
    IF l.ctx.current_position >= l.ctx.data_length
    THEN IF l.lower = "data" THEN {-1, HMAC_LENGTH - 1, HMAC_LENGTH} ELSE {-1, 0}
    ELSE {-1} \cup {k \in 1..length : l.ctx.current_position + k <= l.ctx.data_length}

\* libzip_source_winlibzip_aes_decode for the encrypted data of an entry
LibzipSourceWinzipAesDecode(stream, comp_size_valid, short, encryption_method, flags, password, oom) ==
    /\ ~open /\ ret.op = "none" /\ layer.kind = "none"
    /\ \E r \in {libzip_source_winlibzip_aes_decode(stream, comp_size_valid,
                      IF short THEN WINLIBZIP_AES_PASSWORD_VERIFY_LENGTH + SALT_LENGTH(encryption_method) + HMAC_LENGTH - 1
                      ELSE WINLIBZIP_AES_PASSWORD_VERIFY_LENGTH + SALT_LENGTH(encryption_method) + HMAC_LENGTH
                           + Len(stream.cipher),
                      encryption_method, flags, password, oom)} :
           /\ ret' = [op |-> "winzip_aes_decode", code |-> r.code]
           /\ layer' = IF r.ok THEN r.layer ELSE layer
    /\ ArchiveUnchanged

\* libzip_source_open on the decode layer: the lower source is opened, then
\* the callback reads the header; the source is open if the callback succeeds
AesDecodeOpen(n) ==
    /\ layer.kind = "aes_decode" /\ ~layer.is_open
    /\ \E r \in {winlibzip_aes_decrypt_OPEN([layer EXCEPT !.lower = "header", !.delivered = <<>>,
                                                          !.reported = FALSE], n)} :
           LayerCall(layer, "OPEN", [lower_n |-> n], LayerResult([r.layer EXCEPT !.is_open = r.n >= 0], r.n))

\* libzip_source_read of length bytes on the decode layer
AesDecodeRead(length, n) ==
    /\ layer.kind = "aes_decode" /\ layer.is_open
    /\ n \in AesDecodeLowerReads(layer, length)
    /\ LayerCall(layer, "READ", [length |-> length, lower_n |-> n], winlibzip_aes_decrypt_READ(layer, length, n))

\* libzip_source_close on the decode layer
AesDecodeClose ==
    /\ layer.kind = "aes_decode" /\ layer.is_open
    /\ LayerCall(layer, "CLOSE", <<>>, winlibzip_aes_decrypt_CLOSE([layer EXCEPT !.is_open = FALSE, !.lower = "closed"]))

WinzipAesDecode ==
    /\ ret.op = "none"
    /\ \E stream \in AesStreams, comp_size_valid \in BOOLEAN, short \in BOOLEAN,
          encryption_method \in AesMethods \cup {LIBZIP_EM_NONE}, flags \in SUBSET {LIBZIP_CODEC_ENCODE},
          password \in Passwords, oom \in BOOLEAN :
           LibzipSourceWinzipAesDecode(stream, comp_size_valid, short, encryption_method, flags, password, oom)

AesDecodeOpens ==
    /\ layer.kind = "aes_decode"
    /\ \E n \in {-1, WINLIBZIP_AES_PASSWORD_VERIFY_LENGTH + SALT_LENGTH(layer.ctx.encryption_method) - 1,
                  WINLIBZIP_AES_PASSWORD_VERIFY_LENGTH + SALT_LENGTH(layer.ctx.encryption_method)} :
           AesDecodeOpen(n)

AesDecodeReads == \E length \in 1..(MaxData + 1), n \in -1..HMAC_LENGTH : AesDecodeRead(length, n)

NextAesDecode == WinzipAesDecode \/ AesDecodeOpens \/ AesDecodeReads \/ AesDecodeClose
SpecAesDecode == Init /\ [][NextAesDecode]_vars

(* ---------------- C21: wrong password ---------------- *)
\* the verification value derived from the layer's password is the stored one
PasswordVerified(l) ==
    _libzip_winlibzip_aes_new(l.ctx.password, l.stream.salt).password_verification
        = l.stream.password_verification

C22_HmacOnClose ==
    (/\ layer.kind = "aes_decode"
     /\ ret.op = "layer_call" /\ ret.cmd = "CLOSE"
     /\ layer.ctx.data_length > 0
     /\ layer.ctx.current_position = layer.ctx.data_length
     /\ Len(layer.delivered) = layer.ctx.data_length
     /\ layer.ctx.aes_ctx # NoAes
     /\ layer.stream.hmac # _libzip_winlibzip_aes_finish(layer.ctx.aes_ctx))
        => layer.reported


(* ---------------- zip_source_winzip_aes_encode.c ---------------- *)
\* the bytes of ctx->data after encrypt_header: the salt, then the password
\* verification value
AesHeaderBytes(encryption_method, salt, password_verification) ==
    [i \in 1..SALT_LENGTH(encryption_method) |-> <<"salt", i, <<salt>>>>]
        \o [i \in 1..WINLIBZIP_AES_PASSWORD_VERIFY_LENGTH |-> <<"pv", i, <<password_verification>>>>]

\* the bytes of ctx->data after _libzip_winlibzip_aes_finish
AesHmacBytes(hmac) ==
    [i \in 1..HMAC_LENGTH |-> <<"hmac", i, <<PasswordNumber(hmac.key[1]), hmac.key[2]>> \o hmac.data>>]

\* encrypted data bytes
AesCipherBytes(data) == [i \in 1..Len(data) |-> <<"data", 0, <<data[i]>>>>]

\* _libzip_buffer_read: the bytes copied and the bytes left in the buffer
BufferRead(buffer, length) ==
    Let(IF length < Len(buffer) THEN length ELSE Len(buffer), LAMBDA k :
        [data |-> SubSeq(buffer, 1, k), buffer |-> SubSeq(buffer, k + 1, Len(buffer))])

\* libzip_source_winlibzip_aes_encode: the layered source, or the error
libzip_source_winlibzip_aes_encode(plain, encryption_method, password, oom) ==
    IF encryption_method \notin AesMethods THEN [ok |-> FALSE, code |-> LIBZIP_ER_INVAL]
    ELSE IF oom THEN [ok |-> FALSE, code |-> LIBZIP_ER_MEMORY]
    ELSE [ok |-> TRUE, code |-> LIBZIP_ER_OK,
          layer |-> [kind |-> "aes_encode", is_open |-> FALSE, plain |-> plain, lower_pos |-> 0, salt |-> 0,
                     supports |-> {"OPEN", "READ", "CLOSE", "STAT", "ERROR", "FREE", "GET_FILE_ATTRIBUTES"},
                     lower_failed |-> "none",
                     error |-> ZipError(LIBZIP_ER_OK, 0), output |-> <<>>, reported |-> FALSE,
                     ctx |-> [password |-> password, encryption_method |-> encryption_method,
                              buffer |-> <<>>, eof |-> FALSE, aes_ctx |-> NoAes,
                              error |-> ZipError(LIBZIP_ER_OK, 0)]]]

\* encrypt_header; salt is what libzip_secure_random produced, unless it failed
encrypt_header(l, salt, random_ok, oom) ==
    IF ~random_ok THEN LayerFail(l, LIBZIP_ER_INTERNAL, 0)
    ELSE IF oom THEN LayerFail(l, LIBZIP_ER_MEMORY, 0)
    ELSE Let(_libzip_winlibzip_aes_new(l.ctx.password, salt), LAMBDA aes :
             LayerResult([l EXCEPT !.salt = salt, !.ctx.aes_ctx = aes,
                                   !.ctx.buffer = AesHeaderBytes(l.ctx.encryption_method, salt,
                                                                 aes.password_verification)], 0))

\* winlibzip_aes_encrypt, case LIBZIP_SOURCE_OPEN
winlibzip_aes_encrypt_OPEN(l, salt, random_ok, oom) ==
    encrypt_header([l EXCEPT !.ctx.eof = FALSE], salt, random_ok, oom)

\* winlibzip_aes_encrypt, case LIBZIP_SOURCE_READ; n is what
\* libzip_source_read on the lower source returned for the bytes the buffer
\* did not fill
winlibzip_aes_encrypt_READ(l, length, n) ==
    Let(BufferRead(l.ctx.buffer, length), LAMBDA b :
    Let([l EXCEPT !.ctx.buffer = b.buffer], LAMBDA l1 :
        IF l1.ctx.eof THEN LayerResult([l1 EXCEPT !.output = @ \o b.data], Len(b.data))
        ELSE IF n < 0 THEN LayerFailFromSource(l1, "READ")
        ELSE Let(_libzip_winlibzip_aes_encrypt(l1.ctx.aes_ctx,
                     SubSeq(l1.plain, l1.lower_pos + 1, l1.lower_pos + n)), LAMBDA e :
             IF n < length - Len(b.data)
             THEN Let(BufferRead(AesHmacBytes(_libzip_winlibzip_aes_finish(e.aes_ctx)),
                                 length - Len(b.data) - n), LAMBDA h :
                      LayerResult([l1 EXCEPT !.lower_pos = @ + n, !.ctx.eof = TRUE,
                                             !.ctx.aes_ctx = NoAes, !.ctx.buffer = h.buffer,
                                             !.output = @ \o b.data \o AesCipherBytes(e.data) \o h.data],
                                  Len(b.data) + Len(h.data) + n))
             ELSE LayerResult([l1 EXCEPT !.lower_pos = @ + n, !.ctx.aes_ctx = e.aes_ctx,
                                         !.output = @ \o b.data \o AesCipherBytes(e.data)],
                              Len(b.data) + n))))

\* winlibzip_aes_encrypt, case LIBZIP_SOURCE_CLOSE
winlibzip_aes_encrypt_CLOSE(l) == LayerResult(l, 0)

\* what libzip_source_read on the lower source returns for a read of length
\* bytes: -1, or up to length bytes of the data left, 0 only at its end
AesEncodeLowerReads(l, length) ==
    IF length = 0 \/ l.lower_pos = Len(l.plain) THEN {-1, 0}
    ELSE {-1} \cup {k \in 1..length : l.lower_pos + k <= Len(l.plain)}

\* libzip_source_winlibzip_aes_encode over a lower source with the data plain
LibzipSourceWinzipAesEncode(plain, encryption_method, password, oom) ==
    /\ ~open /\ ret.op = "none" /\ layer.kind = "none"
    /\ \E r \in {libzip_source_winlibzip_aes_encode(plain, encryption_method, password, oom)} :
           /\ ret' = [op |-> "winzip_aes_encode", code |-> r.code]
           /\ layer' = IF r.ok THEN r.layer ELSE layer
    /\ ArchiveUnchanged

\* libzip_source_open on the encode layer: the lower source is opened at
\* its start, then the callback prepares the header
AesEncodeOpen(salt, random_ok, oom) ==
    /\ layer.kind = "aes_encode" /\ ~layer.is_open
    /\ \E r \in {winlibzip_aes_encrypt_OPEN([layer EXCEPT !.lower_pos = 0, !.output = <<>>,
                                                          !.reported = FALSE], salt, random_ok, oom)} :
           LayerCall(layer, "OPEN", [salt |-> salt],
                     LayerResult([r.layer EXCEPT !.is_open = r.n >= 0], r.n))

\* libzip_source_read of length bytes on the encode layer
AesEncodeRead(length, n) ==
    /\ layer.kind = "aes_encode" /\ layer.is_open
    /\ n \in AesEncodeLowerReads(layer, length - Len(BufferRead(layer.ctx.buffer, length).data))
    /\ LayerCall(layer, "READ", [length |-> length, lower_n |-> n],
                 winlibzip_aes_encrypt_READ(layer, length, n))

\* libzip_source_close on the encode layer
AesEncodeClose ==
    /\ layer.kind = "aes_encode" /\ layer.is_open
    /\ LayerCall(layer, "CLOSE", <<>>, winlibzip_aes_encrypt_CLOSE([layer EXCEPT !.is_open = FALSE]))

\* the lengths a caller reads with
AesEncodeLengths == {SALT_LENGTH(LIBZIP_EM_AES_128) \div 2, MaxData + HMAC_LENGTH}

WinzipAesEncode ==
    /\ ret.op = "none"
    /\ \E plain \in StreamData, encryption_method \in {LIBZIP_EM_NONE, LIBZIP_EM_AES_128, LIBZIP_EM_AES_256},
          password \in {"p", "q"}, oom \in BOOLEAN :
           LibzipSourceWinzipAesEncode(plain, encryption_method, password, oom)

AesEncodeOpens ==
    /\ layer.kind = "aes_encode"
    /\ \E salt \in Salts, random_ok \in BOOLEAN, oom \in BOOLEAN : AesEncodeOpen(salt, random_ok, oom)

AesEncodeReads ==
    /\ layer.kind = "aes_encode"
    /\ \E length \in AesEncodeLengths, n \in -1..(MaxData + 1) : AesEncodeRead(length, n)

NextAesEncode == WinzipAesEncode \/ AesEncodeOpens \/ AesEncodeReads \/ AesEncodeClose
SpecAesEncode == Init /\ [][NextAesEncode]_vars

(* ---------------- C23: the encoded stream ---------------- *)
\* salt, password verification value, ciphertext of the whole lower stream,
\* authentication code
AesEncoded(l) ==
    Let(_libzip_winlibzip_aes_encrypt(_libzip_winlibzip_aes_new(l.ctx.password, l.salt), l.plain), LAMBDA e :
        AesHeaderBytes(l.ctx.encryption_method, l.salt,
                       _libzip_winlibzip_aes_new(l.ctx.password, l.salt).password_verification)
            \o AesCipherBytes(e.data)
            \o AesHmacBytes(_libzip_winlibzip_aes_finish(e.aes_ctx)))

\* C23: when a READ on an encode layer no call of which has failed returns
\* 0 (the end of its stream), the bytes it has returned since OPEN are the
\* salt, the password verification value, the ciphertext of the complete
\* lower stream and the authentication code.
C23_EncodedStream ==
    (/\ layer.kind = "aes_encode" /\ layer.is_open
     /\ layer.error = ZipError(LIBZIP_ER_OK, 0)
     /\ ret.op = "layer_call" /\ ret.cmd = "READ" /\ ret.n = 0)
        => layer.output = AesEncoded(layer)


(* ---------------- zip_source_compress.c ---------------- *)
LIBZIP_STAT_COMP_SIZE == 8
LIBZIP_STAT_COMP_METHOD == 64
LIBZIP_ER_ZLIB == 13

\* the size of ctx->buffer (BUFSIZE in the source)
MaxBuf == 2
\* the largest size of a compressed stream
MaxComp == 4

LIBZIP_CM_IS_DEFAULT(x) == x = LIBZIP_CM_DEFAULT \/ x = LIBZIP_CM_REPLACED_DEFAULT

LIBZIP_CM_ACTUAL(x) == IF LIBZIP_CM_IS_DEFAULT(x) THEN LIBZIP_CM_DEFLATE ELSE x

\* _libzip_get_compression_algorithm: deflate is the implementation built in
_libzip_get_compression_algorithm(method) == LIBZIP_CM_ACTUAL(method) = LIBZIP_CM_DEFLATE

\* bytes of the lower source, and bytes number from + 1 .. from + n of the
\* compressed stream
RawBytes(data) == [i \in 1..Len(data) |-> <<"raw", data[i]>>]
CompressedBytes(from, n) == [i \in 1..n |-> <<"z", from + i>>]

\* the state of the algorithm (zip_algorithm_deflate.c) after start: no
\* input, nothing produced; comp_size is the size of the stream that deflate
\* produces for the data of the lower source
AlgorithmStart(comp_size) ==
    [avail_in |-> 0, end_of_input |-> FALSE, produced |-> 0, comp_size |-> comp_size]

\* process of the algorithm with deflate: without Z_FINISH deflate takes the
\* pending input and keeps it, or has nothing to do; with Z_FINISH it emits
\* the stream as far as the output has room
CompressProcess(ud, out_len) ==
    IF ~ud.end_of_input
    THEN IF ud.avail_in > 0
         THEN [ret |-> "OK", length |-> 0, ud |-> [ud EXCEPT !.avail_in = 0]]
         ELSE [ret |-> "NEED_DATA", length |-> 0, ud |-> ud]
    ELSE Let(IF out_len < ud.comp_size - ud.produced THEN out_len ELSE ud.comp_size - ud.produced,
             LAMBDA k :
                 [ret |-> IF ud.produced + k = ud.comp_size THEN "END" ELSE "OK",
                  length |-> k, ud |-> [ud EXCEPT !.produced = @ + k]])

\* compression_source_new with compress = true: the layered source over a
\* lower source with the data plain, or the error
libzip_source_compress(plain, comp_size, method, oom) ==
    IF ~_libzip_get_compression_algorithm(method) THEN [ok |-> FALSE, code |-> LIBZIP_ER_COMPNOTSUPP]
    ELSE IF oom THEN [ok |-> FALSE, code |-> LIBZIP_ER_MEMORY]
    ELSE [ok |-> TRUE, code |-> LIBZIP_ER_OK,
          layer |-> [kind |-> "compress", is_open |-> FALSE, plain |-> plain, lower_pos |-> 0,
                     supports |-> {"OPEN", "READ", "CLOSE", "STAT", "ERROR", "FREE",
                                   "GET_FILE_ATTRIBUTES", "SUPPORTS_REOPEN"},
                     lower_failed |-> "none",
                     comp_size |-> comp_size, error |-> ZipError(LIBZIP_ER_OK, 0), delivered |-> <<>>,
                     reported |-> FALSE,
                     ctx |-> [error |-> ZipError(LIBZIP_ER_OK, 0), end_of_input |-> FALSE,
                              end_of_stream |-> FALSE, can_store |-> LIBZIP_CM_IS_DEFAULT(method),
                              is_stored |-> FALSE, method |-> method, size |-> 0, first_read |-> -1,
                              buffer |-> <<>>, ud |-> AlgorithmStart(comp_size)]]]

\* compress_callback, case LIBZIP_SOURCE_OPEN
compress_callback_OPEN(l, stat_ok, start_ok) ==
    Let([l EXCEPT !.ctx.size = 0, !.ctx.end_of_input = FALSE, !.ctx.end_of_stream = FALSE,
                  !.ctx.is_stored = FALSE, !.ctx.first_read = -1], LAMBDA l1 :
        IF ~stat_ok THEN LayerFailFromSource(l1, "STAT")
        ELSE IF ~start_ok THEN LayerFail(l1, LIBZIP_ER_ZLIB, 0)
        ELSE LayerResult([l1 EXCEPT !.ctx.ud = AlgorithmStart(l.comp_size)], 0))

\* a test that stores when the output is no larger than the first buffer
CompressCanStore_no_larger(first_read, out_offset) == out_offset <= first_read

\* compress_read: the test that the first buffer is no larger than the output
CompressCanStore(first_read, out_offset) == first_read <= out_offset

\* what libzip_source_read of sizeof(ctx->buffer) on the lower source returns
\* for the read number reads of a call: -1 for read number fail_at, else up
\* to chunk bytes of what is left
CompressLowerRead(l, reads, chunk, fail_at) ==
    IF reads = fail_at THEN -1
    ELSE Let(IF chunk < MaxBuf THEN chunk ELSE MaxBuf, LAMBDA want :
             IF want < Len(l.plain) - l.lower_pos THEN want ELSE Len(l.plain) - l.lower_pos)

RECURSIVE compress_loop(_, _, _, _, _, _)
\* compress_read, the loop: out are the bytes placed in data so far
compress_loop(l, len, out, reads, chunk, fail_at) ==
    IF Len(out) >= len THEN [l |-> l, out |-> out, stored |-> FALSE]
    ELSE Let(CompressProcess(l.ctx.ud, len - Len(out)), LAMBDA p :
         Let([l EXCEPT !.ctx.ud = p.ud], LAMBDA l1 :
         Let(out \o CompressedBytes(l.ctx.ud.produced, p.length), LAMBDA out1 :
             CASE p.ret = "END" ->
                      IF l1.ctx.first_read < 0
                      THEN [l |-> [l1 EXCEPT !.ctx.end_of_stream = TRUE,
                                             !.ctx.error = ZipError(LIBZIP_ER_INTERNAL, 0)],
                            out |-> out1, stored |-> FALSE]
                      ELSE IF l1.ctx.can_store /\ CompressCanStore(l1.ctx.first_read, Len(out1))
                      THEN [l |-> [l1 EXCEPT !.ctx.end_of_stream = TRUE, !.ctx.is_stored = TRUE,
                                             !.ctx.size = l1.ctx.first_read],
                            out |-> RawBytes(SubSeq(l1.ctx.buffer, 1, l1.ctx.first_read)),
                            stored |-> TRUE]
                      ELSE [l |-> [l1 EXCEPT !.ctx.end_of_stream = TRUE], out |-> out1, stored |-> FALSE]
               [] p.ret = "OK" -> compress_loop(l1, len, out1, reads, chunk, fail_at)
               [] OTHER ->
                      IF l1.ctx.end_of_input THEN [l |-> l1, out |-> out1, stored |-> FALSE]
                      ELSE Let(CompressLowerRead(l1, reads + 1, chunk, fail_at), LAMBDA n :
                           IF n < 0
                           THEN [l |-> [l1 EXCEPT !.ctx.error = LowerError("READ"), !.lower_failed = "READ"],
                                 out |-> out1, stored |-> FALSE]
                           ELSE IF n = 0
                           THEN compress_loop([l1 EXCEPT !.ctx.end_of_input = TRUE,
                                                         !.ctx.ud.end_of_input = TRUE,
                                                         !.ctx.first_read = IF @ < 0 THEN 0 ELSE @],
                                              len, out1, reads + 1, chunk, fail_at)
                           ELSE compress_loop([l1 EXCEPT !.ctx.can_store = IF l1.ctx.first_read >= 0
                                                                           THEN FALSE ELSE @,
                                                         !.ctx.first_read = IF @ >= 0 THEN @ ELSE n,
                                                         !.ctx.buffer = SubSeq(l1.plain, l1.lower_pos + 1,
                                                                               l1.lower_pos + n),
                                                         !.lower_pos = @ + n,
                                                         !.ctx.ud.avail_in = n],
                                              len, out1, reads + 1, chunk, fail_at)))))

\* compress_read
compress_read(l, len, chunk, fail_at) ==
    IF l.ctx.error.zip_err # LIBZIP_ER_OK THEN LayerResult(l, -1)
    ELSE IF len = 0 \/ l.ctx.end_of_stream THEN LayerResult(l, 0)
    ELSE Let(compress_loop(l, len, <<>>, 0, chunk, fail_at), LAMBDA r :
             IF r.stored
             THEN LayerResult([r.l EXCEPT !.delivered = @ \o r.out], r.l.ctx.size)
             ELSE IF Len(r.out) > 0
             THEN LayerResult([r.l EXCEPT !.ctx.can_store = FALSE, !.ctx.size = @ + Len(r.out),
                                          !.delivered = @ \o r.out], Len(r.out))
             ELSE LayerResult(r.l, IF r.l.ctx.error.zip_err = LIBZIP_ER_OK THEN 0 ELSE -1))

\* compress_callback, case LIBZIP_SOURCE_STAT, of a compressing layer: st as
\* the lower source filled it
compress_callback_STAT(l, st) ==
    IF l.ctx.end_of_stream
    THEN [valid |-> st.valid \cup {LIBZIP_STAT_COMP_SIZE, LIBZIP_STAT_COMP_METHOD},
          comp_method |-> IF l.ctx.is_stored THEN LIBZIP_CM_STORE ELSE LIBZIP_CM_ACTUAL(l.ctx.method),
          comp_size |-> l.ctx.size]
    ELSE [st EXCEPT !.valid = @ \ {LIBZIP_STAT_COMP_SIZE, LIBZIP_STAT_COMP_METHOD}]

\* the stat of the lower source, which holds uncompressed data
CompressLowerStats(l) ==
    [valid : SUBSET {LIBZIP_STAT_COMP_SIZE, LIBZIP_STAT_COMP_METHOD},
     comp_method : {LIBZIP_CM_STORE}, comp_size : {Len(l.plain)}]

\* libzip_source_compress over a lower source with the data plain
LibzipSourceCompress(plain, comp_size, method, oom) ==
    /\ ~open /\ ret.op = "none" /\ layer.kind = "none"
    /\ \E r \in {libzip_source_compress(plain, comp_size, method, oom)} :
           /\ ret' = [op |-> "source_compress", code |-> r.code]
           /\ layer' = IF r.ok THEN r.layer ELSE layer
    /\ ArchiveUnchanged

\* libzip_source_open on the compress layer
CompressOpen(stat_ok, start_ok) ==
    /\ layer.kind = "compress" /\ ~layer.is_open
    /\ \E r \in {compress_callback_OPEN([layer EXCEPT !.lower_pos = 0, !.delivered = <<>>,
                                                      !.reported = FALSE], stat_ok, start_ok)} :
           LayerCall(layer, "OPEN", [stat_ok |-> stat_ok, start_ok |-> start_ok],
                     LayerResult([r.layer EXCEPT !.is_open = r.n >= 0], r.n))

\* libzip_source_read of len bytes on the compress layer
CompressRead(len, chunk, fail_at) ==
    /\ layer.kind = "compress" /\ layer.is_open
    /\ LayerCall(layer, "READ", [length |-> len, chunk |-> chunk, fail_at |-> fail_at],
                 compress_read(layer, len, chunk, fail_at))

\* libzip_source_stat on the compress layer
CompressStat(st) ==
    /\ layer.kind = "compress"
    /\ LayerCall(layer, "STAT", [st |-> compress_callback_STAT(layer, st)], LayerResult(layer, 0))

\* libzip_source_close on the compress layer
CompressClose ==
    /\ layer.kind = "compress" /\ layer.is_open
    /\ LayerCall(layer, "CLOSE", <<>>, LayerResult([layer EXCEPT !.is_open = FALSE], 0))

SourceCompress ==
    /\ ret.op = "none"
    /\ \E plain \in SeqsUpTo(Bytes, MaxBuf + 1), comp_size \in 1..MaxComp,
          method \in {LIBZIP_CM_DEFAULT, LIBZIP_CM_REPLACED_DEFAULT, LIBZIP_CM_DEFLATE, LIBZIP_CM_STORE},
          oom \in BOOLEAN :
           LibzipSourceCompress(plain, comp_size, method, oom)

CompressOpens ==
    /\ layer.kind = "compress"
    /\ \E stat_ok \in BOOLEAN, start_ok \in BOOLEAN : CompressOpen(stat_ok, start_ok)

CompressReads ==
    /\ layer.kind = "compress"
    /\ \E len \in {1, MaxComp}, chunk \in 1..MaxBuf, fail_at \in 0..2 : CompressRead(len, chunk, fail_at)

CompressStats ==
    /\ layer.kind = "compress"
    /\ \E st \in CompressLowerStats(layer) : CompressStat(st)

NextCompress == SourceCompress \/ CompressOpens \/ CompressReads \/ CompressStats \/ CompressClose
SpecCompress == Init /\ [][NextCompress]_vars

(* ---------------- C24: stored mode ---------------- *)
\* a READ has just ended the compressed stream without an error
CompressStreamEnded ==
    /\ layer.kind = "compress" /\ ret.op = "layer_call" /\ ret.cmd = "READ" /\ ret.n >= 0
    /\ ~ret.before.ctx.end_of_stream /\ layer.ctx.end_of_stream
    /\ layer.ctx.error.zip_err = LIBZIP_ER_OK

\* what STAT reports after the READ
CompressStatAfter == compress_callback_STAT(layer, [valid |-> {}, comp_method |-> LIBZIP_CM_STORE, comp_size |-> 0])

\* C24 as stated: when the stream of a layer with method "default" has ended
\* and the compressed output is no larger than the first buffer read from the
\* lower source, the layer is in stored mode and STAT reports STORE (here
\* for a first buffer that held the whole input, read by the first READ
\* since the layer was created).
C24_StoreWhenNoLarger ==
    (/\ CompressStreamEnded
     /\ LIBZIP_CM_IS_DEFAULT(layer.ctx.method)
     /\ ret.before.ctx.can_store
     /\ layer.ctx.first_read = Len(layer.plain)
     /\ layer.comp_size <= layer.ctx.first_read)
        => /\ layer.ctx.is_stored
           /\ CompressStatAfter.comp_method = LIBZIP_CM_STORE

\* C24 amended: the READ that ends the compressed stream flips the layer to
\* stored mode exactly when the layer could still store (its method is
\* "default" and no READ since its creation returned output or read a second
\* buffer), the whole input came with the first buffer read from the lower
\* source, and that buffer is no larger than the compressed output; a stored
\* layer has returned the original bytes and reports STORE with the original
\* size, any other reports the actual method.
C24_StoredMode ==
    CompressStreamEnded
        => /\ layer.ctx.is_stored
                  <=> /\ ret.before.ctx.can_store
                      /\ layer.ctx.first_read = Len(layer.plain)
                      /\ layer.ctx.first_read <= layer.comp_size
           /\ ret.before.ctx.can_store => LIBZIP_CM_IS_DEFAULT(layer.ctx.method)
           /\ layer.ctx.is_stored
                  => /\ layer.delivered = RawBytes(layer.plain)
                     /\ ret.n = Len(layer.plain)
                     /\ CompressStatAfter.comp_method = LIBZIP_CM_STORE
                     /\ CompressStatAfter.comp_size = Len(layer.plain)
           /\ ~layer.ctx.is_stored
                  => CompressStatAfter.comp_method = LIBZIP_CM_ACTUAL(layer.ctx.method)

\* a layer was flipped to stored mode by a compressed stream larger than its
\* input
C24_Witness ==
    /\ CompressStreamEnded /\ layer.ctx.is_stored
    /\ Len(layer.plain) = MaxBuf /\ layer.comp_size > Len(layer.plain)








(* ---------------- zip_source_window.c ---------------- *)
\* the largest size of the data of a lower source
MaxLower == 3
\* the largest start and the largest length of a window
MaxStart == 1
MaxLength == 2

SEEK_SET == "SEEK_SET"
SEEK_CUR == "SEEK_CUR"
SEEK_END == "SEEK_END"

LIBZIP_SOURCE_SUPPORTS_READABLE == {"OPEN", "READ", "CLOSE", "STAT", "ERROR", "FREE"}
LIBZIP_SOURCE_SUPPORTS_SEEKABLE == LIBZIP_SOURCE_SUPPORTS_READABLE \cup {"SEEK", "TELL", "SUPPORTS"}
LIBZIP_SOURCE_SUPPORTS_WRITABLE ==
    LIBZIP_SOURCE_SUPPORTS_SEEKABLE
        \cup {"BEGIN_WRITE", "COMMIT_WRITE", "ROLLBACK_WRITE", "WRITE", "SEEK_WRITE", "TELL_WRITE", "REMOVE"}

\* libzip_source_cmd_t
SourceCommands ==
    LIBZIP_SOURCE_SUPPORTS_WRITABLE
        \cup {"RESERVED_1", "BEGIN_WRITE_CLONING", "ACCEPT_EMPTY", "GET_FILE_ATTRIBUTES", "SUPPORTS_REOPEN"}

\* libzip_stat_t, of which the model keeps size and comp_method
WindowStats(valids, sizes) ==
    {[valid |-> valid,
      size |-> IF LIBZIP_STAT_SIZE \in valid THEN size ELSE 0,
      comp_method |-> IF LIBZIP_STAT_COMP_METHOD \in valid THEN LIBZIP_CM_DEFLATE ELSE LIBZIP_CM_STORE] :
        valid \in valids, size \in sizes}

\* _libzip_stat_merge: the fields valid in src replace those of dst
_libzip_stat_merge(dst, src) ==
    [valid |-> dst.valid \cup src.valid,
     size |-> IF LIBZIP_STAT_SIZE \in src.valid THEN src.size ELSE dst.size,
     comp_method |-> IF LIBZIP_STAT_COMP_METHOD \in src.valid THEN src.comp_method ELSE dst.comp_method]

\* libzip_source_layered_create: what the callback supports, without the
\* commands for writing
LayeredSupports(supports) ==
    supports \ (LIBZIP_SOURCE_SUPPORTS_WRITABLE \ LIBZIP_SOURCE_SUPPORTS_SEEKABLE)

\* _libzip_source_window_new without source archive, over a lower source
\* with lower_len bytes that supports lower_supports; end is what ctx->end
\* holds if length is -1 and it is not set
_libzip_source_window_new(lower_len, lower_supports, start, length, st, st_invalid, end, oom) ==
    IF length < -1 THEN [ok |-> FALSE, code |-> LIBZIP_ER_INVAL]
    ELSE IF oom THEN [ok |-> FALSE, code |-> LIBZIP_ER_MEMORY]
    ELSE Let((lower_supports \cap (LIBZIP_SOURCE_SUPPORTS_SEEKABLE \cup {"SUPPORTS_REOPEN"}))
                 \cup {"GET_FILE_ATTRIBUTES", "SUPPORTS", "TELL", "FREE"}, LAMBDA supports :
         [ok |-> TRUE, code |-> LIBZIP_ER_OK,
          layer |-> [kind |-> "window", is_open |-> FALSE,
                     supports |-> LayeredSupports(supports), lower_failed |-> "none",
                     lower |-> [len |-> lower_len, pos |-> 0, supports |-> lower_supports],
                     error |-> ZipError(LIBZIP_ER_OK, 0), delivered |-> {}, reported |-> FALSE,
                     ctx |-> [start |-> start,
                              end |-> IF length = -1 THEN end ELSE start + length,
                              end_valid |-> length # -1,
                              offset |-> 0,
                              stat |-> _libzip_stat_merge([valid |-> {}, size |-> 0,
                                                           comp_method |-> LIBZIP_CM_STORE], st),
                              stat_invalid |-> st_invalid,
                              error |-> ZipError(LIBZIP_ER_OK, 0),
                              supports |-> supports,
                              needs_seek |-> "SEEK" \in supports]]])

\* window_read, case LIBZIP_SOURCE_OPEN: a lower source that cannot seek is
\* read up to start; read_ok tells whether its reads succeed
window_read_OPEN(l, read_ok) ==
    IF l.ctx.needs_seek \/ l.ctx.start = 0 THEN LayerResult([l EXCEPT !.ctx.offset = l.ctx.start], 0)
    ELSE IF ~read_ok THEN LayerFailFromSource(l, "READ")
    ELSE IF l.lower.len < l.ctx.start THEN LayerFail([l EXCEPT !.lower.pos = l.lower.len], LIBZIP_ER_EOF, 0)
    ELSE LayerResult([l EXCEPT !.lower.pos = l.ctx.start, !.ctx.offset = l.ctx.start], 0)

\* a READ that passes the length on as it is
WindowClamp_none(ctx, len) == len

\* window_read, case LIBZIP_SOURCE_READ: the length that stays in the window
WindowClamp(ctx, len) ==
    IF ctx.end_valid /\ len > ctx.end - ctx.offset THEN ctx.end - ctx.offset ELSE len

\* what libzip_source_read of len bytes on the lower source returns at its
\* position: -1, or up to len bytes of what is left, 0 only at its end
WindowLowerReads(lower_len, pos, len) ==
    IF pos >= lower_len THEN {-1, 0}
    ELSE {-1} \cup {k \in 1..len : pos + k <= lower_len}

\* window_read, case LIBZIP_SOURCE_READ: seek_ok tells whether the seek on
\* the lower source succeeds, n is what its read returns
window_read_READ(l, length, seek_ok, n) ==
    Let(WindowClamp(l.ctx, length), LAMBDA len :
        IF len = 0 THEN LayerResult(l, 0)
        ELSE IF l.ctx.needs_seek /\ ~seek_ok THEN LayerFailFromSource(l, "SEEK")
        ELSE Let(IF l.ctx.needs_seek THEN l.ctx.offset ELSE l.lower.pos, LAMBDA pos :
             IF n < 0 THEN LayerFail([l EXCEPT !.lower.pos = pos, !.lower_failed = "READ"], LIBZIP_ER_EOF, 0)
             ELSE Let([l EXCEPT !.lower.pos = pos + n, !.ctx.offset = @ + n,
                                !.delivered = pos..(pos + n - 1)], LAMBDA l1 :
                  IF n = 0 /\ l1.ctx.end_valid /\ l1.ctx.offset < l1.ctx.end
                  THEN LayerFail(l1, LIBZIP_ER_EOF, 0)
                  ELSE LayerResult(l1, n))))

\* libzip_source_seek_compute_offset
libzip_source_seek_compute_offset(offset, length, whence, args_offset) ==
    Let(CASE whence = SEEK_CUR -> offset + args_offset
          [] whence = SEEK_END -> length + args_offset
          [] OTHER -> args_offset, LAMBDA new_offset :
        IF whence \notin {SEEK_SET, SEEK_CUR, SEEK_END} \/ new_offset < 0 \/ new_offset > length
        THEN -1 ELSE new_offset)

\* window_read, case LIBZIP_SOURCE_SEEK: seek_ok tells whether seek and tell
\* on the lower source succeed, which they do not outside its data. A window
\* without end computes the offsets for SEEK_SET and SEEK_CUR with ctx->end,
\* which was never set: beyond tells whether the new offset is larger than
\* what ctx->end gives, as every offset after the data of the lower source is
window_read_SEEK(l, whence, args_offset, seek_ok, beyond) ==
    IF ~l.ctx.end_valid /\ whence = SEEK_END
    THEN IF ~seek_ok \/ l.lower.len + args_offset \notin 0..l.lower.len THEN LayerFailFromSource(l, "SEEK")
         ELSE IF l.lower.len + args_offset < l.ctx.start
         THEN LayerFail([l EXCEPT !.lower.pos = l.ctx.offset], LIBZIP_ER_INVAL, 0)
         ELSE LayerResult([l EXCEPT !.lower.pos = l.lower.len + args_offset,
                                    !.ctx.offset = l.lower.len + args_offset], 0)
    ELSE Let(IF l.ctx.end_valid
             THEN libzip_source_seek_compute_offset(l.ctx.offset - l.ctx.start, l.ctx.end - l.ctx.start,
                                                    whence, args_offset)
             ELSE IF beyond THEN -1
             ELSE libzip_source_seek_compute_offset(l.ctx.offset - l.ctx.start, l.lower.len - l.ctx.start,
                                                    whence, args_offset), LAMBDA new_offset :
             IF new_offset < 0 THEN LayerFail(l, LIBZIP_ER_INVAL, 0)
             ELSE LayerResult([l EXCEPT !.ctx.offset = new_offset + l.ctx.start], 0))

\* a STAT that lets the window length override the size
window_read_STAT_length_first(ctx, st) ==
    Let(_libzip_stat_merge(st, ctx.stat), LAMBDA merged :
    Let(IF ctx.end_valid
        THEN [merged EXCEPT !.valid = @ \cup {LIBZIP_STAT_SIZE}, !.size = ctx.end - ctx.start]
        ELSE merged, LAMBDA sized :
        [sized EXCEPT !.valid = @ \ ctx.stat_invalid]))

\* window_read, case LIBZIP_SOURCE_STAT: st as the lower source filled it
window_read_STAT(ctx, st) ==
    Let(_libzip_stat_merge(st, ctx.stat), LAMBDA merged :
    Let(IF LIBZIP_STAT_SIZE \in ctx.stat.valid THEN merged
        ELSE IF ctx.end_valid
        THEN [merged EXCEPT !.valid = @ \cup {LIBZIP_STAT_SIZE}, !.size = ctx.end - ctx.start]
        ELSE IF LIBZIP_STAT_SIZE \in merged.valid THEN [merged EXCEPT !.size = @ - ctx.start]
        ELSE merged, LAMBDA sized :
        [sized EXCEPT !.valid = @ \ ctx.stat_invalid]))

\* window_read, case LIBZIP_SOURCE_TELL
window_read_TELL(l) == LayerResult(l, l.ctx.offset - l.ctx.start)

\* libzip_source_window_create / _libzip_source_window_new
LibzipSourceWindowNew(lower_len, lower_supports, start, length, st, st_invalid, end, oom) ==
    /\ ~open /\ ret.op = "none" /\ layer.kind = "none"
    /\ \E r \in {_libzip_source_window_new(lower_len, lower_supports, start, length, st, st_invalid, end, oom)} :
           /\ ret' = [op |-> "source_window", code |-> r.code]
           /\ layer' = IF r.ok THEN r.layer ELSE layer
    /\ ArchiveUnchanged

\* libzip_source_open on the window: the lower source is opened at its
\* start, then the callback is called
WindowOpen(read_ok) ==
    /\ layer.kind = "window" /\ ~layer.is_open
    /\ \E r \in {window_read_OPEN([layer EXCEPT !.lower.pos = 0, !.delivered = {}], read_ok)} :
           LayerCall(layer, "OPEN", <<>>,
                     LayerResult([r.layer EXCEPT !.is_open = r.n >= 0], r.n))

\* libzip_source_read of length bytes on the window
WindowRead(length, seek_ok, n) ==
    /\ layer.kind = "window" /\ layer.is_open
    /\ n \in WindowLowerReads(layer.lower.len,
                              IF layer.ctx.needs_seek THEN layer.ctx.offset ELSE layer.lower.pos,
                              WindowClamp(layer.ctx, length))
    /\ LayerCall(layer, "READ", [lower_n |-> n],
                 window_read_READ(layer, length, seek_ok, n))

\* libzip_source_seek on the window
WindowSeek(whence, args_offset, seek_ok, beyond) ==
    /\ layer.kind = "window" /\ layer.is_open
    /\ LayerCall(layer, "SEEK", <<>>,
                 window_read_SEEK(layer, whence, args_offset, seek_ok, beyond))

\* libzip_source_tell on the window
WindowTell ==
    /\ layer.kind = "window" /\ layer.is_open
    /\ LayerCall(layer, "TELL", <<>>, window_read_TELL(layer))

\* libzip_source_stat on the window: the lower source fills st, then the
\* callback is called
WindowStat(st) ==
    /\ layer.kind = "window"
    /\ LayerCall(layer, "STAT", [lower |-> st, st |-> window_read_STAT(layer.ctx, st)], LayerResult(layer, 0))

\* libzip_source_close on the window
WindowClose ==
    /\ layer.kind = "window" /\ layer.is_open
    /\ LayerCall(layer, "CLOSE", <<>>, LayerResult([layer EXCEPT !.is_open = FALSE], 0))

\* a command that window_read passes to the lower source, on the window
WindowCommand(command) ==
    /\ layer.kind = "window"
    /\ LayerCall(layer, command, <<>>, LayerResult(layer, 0))

\* the window is used as long as no call on it has failed
WindowUsed == layer.kind = "window" /\ layer.error = ZipError(LIBZIP_ER_OK, 0)

SourceWindowNew ==
    /\ ret.op = "none"
    /\ \E lower_len \in (MaxLower - 1)..MaxLower,
          lower_supports \in {LIBZIP_SOURCE_SUPPORTS_READABLE, LIBZIP_SOURCE_SUPPORTS_WRITABLE},
          start \in 0..MaxStart, length \in -2..MaxLength,
          st \in WindowStats(SUBSET {LIBZIP_STAT_SIZE, LIBZIP_STAT_COMP_METHOD}, {MaxLower + 2}), st_invalid \in SUBSET {LIBZIP_STAT_SIZE},
          oom \in BOOLEAN :
           LibzipSourceWindowNew(lower_len, lower_supports, start, length, st, st_invalid, 0, oom)

WindowOpens ==
    /\ WindowUsed
    /\ \E read_ok \in BOOLEAN : WindowOpen(read_ok)

WindowReads ==
    /\ WindowUsed
    /\ \E length \in 1..(MaxLength + 1), seek_ok \in BOOLEAN, n \in -1..(MaxLength + 1) : WindowRead(length, seek_ok, n)

WindowSeeks ==
    /\ WindowUsed
    /\ \E whence \in {SEEK_SET, SEEK_CUR, SEEK_END}, args_offset \in -1..MaxLength,
          seek_ok \in BOOLEAN, beyond \in BOOLEAN :
           WindowSeek(whence, args_offset, seek_ok, beyond)

WindowStatCalls ==
    /\ WindowUsed
    /\ \E st \in WindowStats(SUBSET {LIBZIP_STAT_SIZE, LIBZIP_STAT_COMP_METHOD}, {layer.lower.len}) : WindowStat(st)

WindowCommands ==
    /\ WindowUsed
    /\ \E command \in SourceCommands \cap {"WRITE", "REMOVE", "ACCEPT_EMPTY"} :
           WindowCommand(command)

WindowTells ==
    /\ WindowUsed
    /\ WindowTell

NextWindow ==
    \/ SourceWindowNew \/ WindowOpens \/ WindowReads \/ WindowSeeks \/ WindowTells \/ WindowStatCalls
    \/ WindowClose \/ WindowCommands
SpecWindow == Init /\ [][NextWindow]_vars

\* a call of command on the window that reached window_read
WindowCalled(command) ==
    ret.op = "layer_call" /\ ret.kind = "window" /\ ret.cmd = command /\ ret.called

\* C25: a window with a known length restricts its lower source to the
\* offsets from start to before start + length: every byte a READ delivers
\* comes from a lower offset in that range, the byte at a position of the
\* window from the lower offset start + position, the position of the open
\* window stays between 0 and length, TELL reports it, and a READ at position
\* length returns 0
C25_WindowRange ==
    (layer.kind = "window" /\ layer.ctx.end_valid) =>
        /\ \A o \in layer.delivered : layer.ctx.start <= o /\ o < layer.ctx.end
        /\ layer.is_open => layer.ctx.offset \in layer.ctx.start..layer.ctx.end
        /\ (WindowCalled("READ") /\ ret.n > 0) =>
               layer.delivered = ret.before.ctx.offset..(ret.before.ctx.offset + ret.n - 1)
        /\ (WindowCalled("READ") /\ ret.before.ctx.offset = ret.before.ctx.end) => ret.n = 0
        /\ WindowCalled("TELL") =>
               ret.n = layer.ctx.offset - layer.ctx.start /\ ret.n \in 0..(layer.ctx.end - layer.ctx.start)

\* a READ at the end of a window that starts after the start of the lower
\* source and ends before its end returned 0 after the bytes were delivered
C25_Witness ==
    /\ layer.kind = "window" /\ layer.ctx.end_valid
    /\ WindowCalled("READ") /\ ret.n = 0
    /\ ret.before.ctx.offset = layer.ctx.end
    /\ layer.ctx.start > 0 /\ layer.ctx.end < layer.lower.len
    /\ layer.delivered = layer.ctx.start..(layer.ctx.end - 1) /\ layer.delivered # {}

\* C26, as stated: whenever the window length is known, the size that STAT
\* reports is the window length
C26_LengthOverrides ==
    (WindowCalled("STAT") /\ layer.ctx.end_valid /\ LIBZIP_STAT_SIZE \in ret.args.st.valid) =>
        ret.args.st.size = layer.ctx.end - layer.ctx.start

\* C26: STAT merges the stat given at creation into the stat of the lower
\* source, the given fields replacing those of the lower source. A size
\* given at creation is the size reported; only without one, the size is the
\* window length if it is known, and else the size of the lower source minus
\* start. The fields named invalid at creation are reported as not valid
C26_CallerSizeFirst ==
    WindowCalled("STAT") =>
        /\ ret.args.st.valid =
               (ret.args.lower.valid \cup layer.ctx.stat.valid
                    \cup (IF layer.ctx.end_valid THEN {LIBZIP_STAT_SIZE} ELSE {})) \ layer.ctx.stat_invalid
        /\ LIBZIP_STAT_SIZE \in ret.args.st.valid =>
               ret.args.st.size = IF LIBZIP_STAT_SIZE \in layer.ctx.stat.valid THEN layer.ctx.stat.size
                                  ELSE IF layer.ctx.end_valid THEN layer.ctx.end - layer.ctx.start
                                  ELSE ret.args.lower.size - layer.ctx.start
        /\ LIBZIP_STAT_COMP_METHOD \in ret.args.st.valid =>
               ret.args.st.comp_method = IF LIBZIP_STAT_COMP_METHOD \in layer.ctx.stat.valid
                                         THEN layer.ctx.stat.comp_method
                                         ELSE ret.args.lower.comp_method

\* STAT on a window of known length that was given another size at
\* creation reported the given size
C26_Witness ==
    /\ WindowCalled("STAT") /\ layer.ctx.end_valid
    /\ LIBZIP_STAT_SIZE \in layer.ctx.stat.valid
    /\ layer.ctx.stat.size # layer.ctx.end - layer.ctx.start
    /\ LIBZIP_STAT_SIZE \in ret.args.st.valid /\ ret.args.st.size = layer.ctx.stat.size

\* C27: a command that is not in the supports of a source fails with
\* OPNOTSUPP, and the callback of the source is not called: nothing of the
\* source but its error changes
C27_Unsupported ==
    (ret.op = "layer_call" /\ ret.cmd \notin ret.before.supports) =>
        /\ ret.n = -1 /\ ret.code = LIBZIP_ER_OPNOTSUPP
        /\ ~ret.called
        /\ layer = [ret.before EXCEPT !.error = ZipError(LIBZIP_ER_OPNOTSUPP, 0)]

\* WRITE on a window over a lower source that can be written, and SEEK on
\* an open window over one that cannot seek, were refused
C27_Witness ==
    /\ ret.op = "layer_call" /\ ret.code = LIBZIP_ER_OPNOTSUPP /\ ~ret.called
    /\ \/ ret.cmd = "WRITE" /\ "WRITE" \in layer.lower.supports
       \/ ret.cmd = "SEEK" /\ layer.is_open /\ "SEEK" \notin layer.lower.supports


(* ---------------- the errors of lower sources ---------------- *)
NextLayers == NextWindow \/ NextCrc \/ NextCompress \/ NextAesEncode
SpecLayers == Init /\ [][NextLayers]_vars

\* the command of the lower source that failed during the last call on the
\* CRC layer
CrcLowerFailed ==
    IF ret.op # "source_call" THEN "none"
    ELSE IF ret.cmd = "READ" /\ ret.args.lower_n < 0 THEN "READ"
    ELSE IF ret.cmd = "READ" /\ ret.args.stat_fails /\ ret.n < 0 THEN "STAT"
    ELSE IF ret.cmd = "SEEK" /\ ret.args.offset > Len(crc_src.data) THEN "SEEK"
    ELSE "none"

\* the callback set an error of its own after the command of the lower
\* source failed: window_read does for a READ
SetsOwnError ==
    /\ ret.kind = "window" /\ ret.cmd = "READ" /\ ret.lower_failed = "READ"
    /\ layer.error = ZipError(LIBZIP_ER_EOF, 0)

LIBZIP_ER_RENAME == 2
LIBZIP_ER_WRITE == 6
LIBZIP_ER_TMPOPEN == 12
LIBZIP_ER_CANCELLED == 32

\* the progress 1.0: a double between 0.0 and 1.0 is a number of parts of One
One == 4

\* _libzip_progress_new: what the allocation held in last_update, start and
\* end is not set. reported is the last value the progress callback was
\* called with (-1 before the first call), consulted counts the calls of the
\* cancel callback
_libzip_progress_new(held) ==
    [allocated |-> TRUE, callback_progress |-> FALSE, callback_cancel |-> FALSE, precision |-> 0,
     last_update |-> held, start |-> held, end |-> held, reported |-> -1, consulted |-> 0]

\* libzip_register_progress_callback_with_state; callback tells whether it
\* is not NULL
libzip_register_progress_callback_with_state(p, precision, callback, held, oom) ==
    IF callback
    THEN IF ~p.allocated /\ oom THEN [progress |-> p, n |-> -1]
         ELSE [progress |-> [(IF p.allocated THEN p ELSE _libzip_progress_new(held))
                                EXCEPT !.callback_progress = TRUE, !.precision = precision],
               n |-> 0]
    ELSE IF ~p.allocated THEN [progress |-> p, n |-> 0]
    ELSE IF ~p.callback_cancel THEN [progress |-> NoProgress, n |-> 0]
    ELSE [progress |-> [p EXCEPT !.callback_progress = FALSE], n |-> 0]

\* libzip_register_cancel_callback_with_state
libzip_register_cancel_callback_with_state(p, callback, held, oom) ==
    IF callback
    THEN IF ~p.allocated /\ oom THEN [progress |-> p, n |-> -1]
         ELSE [progress |-> [(IF p.allocated THEN p ELSE _libzip_progress_new(held))
                                EXCEPT !.callback_cancel = TRUE],
               n |-> 0]
    ELSE IF ~p.allocated THEN [progress |-> p, n |-> 0]
    ELSE IF ~p.callback_progress THEN [progress |-> NoProgress, n |-> 0]
    ELSE [progress |-> [p EXCEPT !.callback_cancel = FALSE], n |-> 0]

\* the call of the cancel callback at the end of _libzip_progress_start and
\* _libzip_progress_update; cancel is what the callback returns
ProgressCancel(p, cancel) ==
    IF p.callback_cancel
    THEN [progress |-> [p EXCEPT !.consulted = @ + 1], n |-> IF cancel THEN -1 ELSE 0]
    ELSE [progress |-> p, n |-> 0]

\* _libzip_progress_start
_libzip_progress_start(p, cancel) ==
    IF ~p.allocated THEN [progress |-> p, n |-> 0]
    ELSE ProgressCancel(IF p.callback_progress THEN [p EXCEPT !.last_update = 0, !.reported = 0] ELSE p,
                        cancel)

\* LIBZIP_MIN(LIBZIP_MAX(sub_current, 0.0), 1.0) * (end - start) + start
ProgressCurrent(p, sub_current) ==
    ((IF sub_current < 0 THEN 0 ELSE IF sub_current > One THEN One ELSE sub_current)
         * (p.end - p.start)) \div One + p.start

\* an update that asks the cancel callback only when it calls the progress
\* callback
_libzip_progress_update_with_progress(p, sub_current, cancel) ==
    IF ~p.allocated THEN [progress |-> p, n |-> 0]
    ELSE IF p.callback_progress /\ ProgressCurrent(p, sub_current) - p.last_update > p.precision
    THEN ProgressCancel([p EXCEPT !.last_update = ProgressCurrent(p, sub_current),
                                  !.reported = ProgressCurrent(p, sub_current)], cancel)
    ELSE [progress |-> p, n |-> 0]

\* _libzip_progress_update
_libzip_progress_update(p, sub_current, cancel) ==
    IF ~p.allocated THEN [progress |-> p, n |-> 0]
    ELSE ProgressCancel(IF p.callback_progress /\ ProgressCurrent(p, sub_current) - p.last_update > p.precision
                        THEN [p EXCEPT !.last_update = ProgressCurrent(p, sub_current),
                                       !.reported = ProgressCurrent(p, sub_current)]
                        ELSE p,
                        cancel)

\* _libzip_progress_subrange
_libzip_progress_subrange(p, start, end, cancel) ==
    IF ~p.allocated THEN [progress |-> p, n |-> 0]
    ELSE _libzip_progress_update([p EXCEPT !.start = start, !.end = end], 0, cancel)

\* _libzip_progress_end: it returns nothing
_libzip_progress_end(p, cancel) == _libzip_progress_update(p, One, cancel).progress

(* ---------------- zip_source_file_stdio_named.c ---------------- *)
\* the largest number of entries written and of writes per entry
MaxSurvivors == 2
MaxChunks == 2

\* the names of the files of the directory: the archive, and what
\* "%s.XXXXXX.part" gives for two values of the random number
TempNames == {"fname.aaaaaa.part", "fname.bbbbbb.part"}
DirNames == {"fname"} \cup TempNames

NoFile == [exists |-> FALSE, data |-> <<>>]
File(data) == [exists |-> TRUE, data |-> data]

\* create_temp_file with create_file: temp is the first name of the loop
\* that does not exist, outcome what malloc and open do
create_temp_file(f, temp, outcome) ==
    IF outcome = "malloc" THEN [f EXCEPT !.ctx.error = ZipError(LIBZIP_ER_MEMORY, 0), !.n = -1]
    ELSE IF outcome = "open" THEN [f EXCEPT !.ctx.error = ZipError(LIBZIP_ER_TMPOPEN, 1), !.n = -1]
    ELSE [f EXCEPT !.files[temp] = File(<<>>), !.ctx.tmpname = temp, !.n = 0]

\* _libzip_stdio_op_create_temp_output
_libzip_stdio_op_create_temp_output(f, temp, outcome) ==
    Let(create_temp_file(f, temp, outcome), LAMBDA f1 :
        IF f1.n < 0 THEN f1
        ELSE IF outcome = "fdopen"
        THEN [f1 EXCEPT !.ctx.error = ZipError(LIBZIP_ER_TMPOPEN, 1), !.files[temp] = NoFile,
                        !.ctx.tmpname = "NULL", !.n = -1]
        ELSE [f1 EXCEPT !.ctx.fout = temp, !.n = 0])

\* _libzip_stdio_op_write
_libzip_stdio_op_write(f, data, fwrite_ok) ==
    IF ~fwrite_ok THEN [f EXCEPT !.ctx.error = ZipError(LIBZIP_ER_WRITE, 1), !.n = -1]
    ELSE [f EXCEPT !.files[f.ctx.fout].data = @ \o data, !.n = Len(data)]

\* _libzip_stdio_op_commit_write
_libzip_stdio_op_commit_write(f, fclose_ok, rename_ok) ==
    IF ~fclose_ok THEN [f EXCEPT !.ctx.error = ZipError(LIBZIP_ER_WRITE, 1), !.n = -1]
    ELSE IF ~rename_ok THEN [f EXCEPT !.ctx.error = ZipError(LIBZIP_ER_RENAME, 1), !.n = -1]
    ELSE [f EXCEPT !.files["fname"] = f.files[f.ctx.tmpname], !.files[f.ctx.tmpname] = NoFile, !.n = 0]

\* a rollback that leaves the file there
_libzip_stdio_op_rollback_write_keep(f) == f

\* _libzip_stdio_op_rollback_write
_libzip_stdio_op_rollback_write(f) == [f EXCEPT !.files[f.ctx.tmpname] = NoFile]

\* read_file, case LIBZIP_SOURCE_BEGIN_WRITE, of a source with a file name
read_file_BEGIN_WRITE(f, temp, outcome) == _libzip_stdio_op_create_temp_output(f, temp, outcome)

\* read_file, case LIBZIP_SOURCE_COMMIT_WRITE
read_file_COMMIT_WRITE(f, fclose_ok, rename_ok) ==
    Let(_libzip_stdio_op_commit_write(f, fclose_ok, rename_ok), LAMBDA f1 :
        [f1 EXCEPT !.ctx.fout = "NULL", !.ctx.tmpname = IF f1.n = 0 THEN "NULL" ELSE @])

\* read_file, case LIBZIP_SOURCE_ROLLBACK_WRITE
read_file_ROLLBACK_WRITE(f) ==
    [_libzip_stdio_op_rollback_write(f) EXCEPT !.ctx.fout = "NULL", !.ctx.tmpname = "NULL", !.n = 0]

\* libzip_source_file_create for the archive: the files of the directory,
\* and the context of read_file. pre keeps the files as libzip_close found
\* them, pc where libzip_close is, entry and chunk what it writes next
SourceFile(files) ==
    [state |-> "file", files |-> files, pre |-> files,
     ctx |-> [tmpname |-> "NULL", fout |-> "NULL", error |-> ZipError(LIBZIP_ER_OK, 0)],
     n |-> 0, pc |-> "idle", survivors |-> 0, entry |-> 0, chunk |-> 0,
     error |-> ZipError(LIBZIP_ER_OK, 0)]

(* ---------------- libzip_close on a named file, with its checkpoints ---------------- *)
CommitUnchanged == UNCHANGED <<cursor, table, open, ch_flags, entry, names, comment, owner, crc_src, layer>>

\* what a step of libzip_close leaves in ret: the checkpoint or call made,
\* what the cancel callback answers if asked, whether it was registered and
\* was asked, and what the checkpoint or call returned
CloseStep(step, cancel, p, r) ==
    [op |-> "close", step |-> step, cancel |-> cancel,
     registered |-> p.allocated /\ p.callback_cancel,
     consulted |-> r.progress.allocated /\ p.allocated /\ r.progress.consulted > p.consulted,
     n |-> r.n]

\* libzip_close fails: the error is set and the write of the source is rolled
\* back
CloseFail(f, error) == [read_file_ROLLBACK_WRITE(f) EXCEPT !.error = error, !.pc = "failed"]

\* libzip_register_progress_callback_with_state
LibzipRegisterProgressCallback(precision, callback, held, oom) ==
    /\ fs.state = "none"
    /\ \E r \in {libzip_register_progress_callback_with_state(progress, precision, callback, held, oom)} :
           /\ progress' = r.progress
           /\ ret' = [op |-> "register_progress", code |-> IF r.n < 0 THEN LIBZIP_ER_MEMORY ELSE LIBZIP_ER_OK]
    /\ UNCHANGED fs /\ CommitUnchanged

\* libzip_register_cancel_callback_with_state
LibzipRegisterCancelCallback(callback, held, oom) ==
    /\ fs.state = "none"
    /\ \E r \in {libzip_register_cancel_callback_with_state(progress, callback, held, oom)} :
           /\ progress' = r.progress
           /\ ret' = [op |-> "register_cancel", code |-> IF r.n < 0 THEN LIBZIP_ER_MEMORY ELSE LIBZIP_ER_OK]
    /\ UNCHANGED fs /\ CommitUnchanged

\* libzip_source_file_create for the archive in a directory with these files
LibzipSourceFileCreate(files) ==
    /\ fs.state = "none"
    /\ fs' = SourceFile(files)
    /\ ret' = [op |-> "source_file", code |-> LIBZIP_ER_OK]
    /\ UNCHANGED progress /\ CommitUnchanged

\* libzip_close, with survivors entries to write: libzip_source_begin_write
CloseBegin(survivors, temp, outcome) ==
    /\ fs.state = "file" /\ fs.pc \in {"idle", "failed"}
    /\ ~fs.files[temp].exists
    /\ \E f \in {read_file_BEGIN_WRITE([fs EXCEPT !.pre = fs.files, !.survivors = survivors,
                                                  !.entry = 0, !.chunk = 0], temp, outcome)} :
           /\ fs' = IF f.n < 0 THEN [f EXCEPT !.error = f.ctx.error, !.pc = "failed"]
                    ELSE [f EXCEPT !.pc = "start"]
           /\ ret' = [op |-> "close", step |-> "begin_write", cancel |-> FALSE, registered |-> FALSE,
                      consulted |-> FALSE, n |-> f.n]
    /\ progress' = IF progress.allocated THEN [progress EXCEPT !.consulted = 0] ELSE progress
    /\ CommitUnchanged

\* libzip_close: _libzip_progress_start
CloseStart(cancel) ==
    /\ fs.state = "file" /\ fs.pc = "start"
    /\ \E r \in {_libzip_progress_start(progress, cancel)} :
           /\ progress' = r.progress
           /\ fs' = IF r.n # 0 THEN CloseFail(fs, ZipError(LIBZIP_ER_CANCELLED, 0))
                    ELSE [fs EXCEPT !.pc = "subrange"]
           /\ ret' = CloseStep("start", cancel, progress, r)
    /\ CommitUnchanged

\* libzip_close: _libzip_progress_subrange for the next entry
CloseSubrange(cancel) ==
    /\ fs.state = "file" /\ fs.pc = "subrange"
    /\ \E r \in {_libzip_progress_subrange(progress, (One * fs.entry) \div fs.survivors,
                                           (One * (fs.entry + 1)) \div fs.survivors, cancel)} :
           /\ progress' = r.progress
           /\ fs' = IF r.n # 0 THEN CloseFail(fs, ZipError(LIBZIP_ER_CANCELLED, 0))
                    ELSE [fs EXCEPT !.pc = "data", !.chunk = 0]
           /\ ret' = CloseStep("subrange", cancel, progress, r)
    /\ CommitUnchanged

\* what libzip_close does after a chunk of an entry was written
CloseNext(f) ==
    IF f.chunk + 1 < MaxChunks THEN [f EXCEPT !.chunk = @ + 1]
    ELSE IF f.entry + 1 < f.survivors THEN [f EXCEPT !.entry = @ + 1, !.chunk = 0, !.pc = "subrange"]
    ELSE [f EXCEPT !.pc = "commit"]

\* libzip_close: a chunk of the data of an entry is written with
\* libzip_source_write, then _libzip_progress_update
CloseWrite(fwrite_ok, cancel) ==
    /\ fs.state = "file" /\ fs.pc = "data"
    /\ \E f \in {_libzip_stdio_op_write(fs, <<fs.entry>>, fwrite_ok)} :
           IF f.n < 0
           THEN /\ fs' = CloseFail(f, f.ctx.error)
                /\ ret' = [op |-> "close", step |-> "write", cancel |-> FALSE, registered |-> FALSE,
                           consulted |-> FALSE, n |-> f.n]
                /\ UNCHANGED progress
           ELSE \E r \in {_libzip_progress_update(progress, (One * (fs.chunk + 1)) \div MaxChunks, cancel)} :
                    /\ progress' = r.progress
                    /\ fs' = IF r.n # 0 THEN CloseFail(f, ZipError(LIBZIP_ER_CANCELLED, 0))
                             ELSE CloseNext(f)
                    /\ ret' = CloseStep("update", cancel, progress, r)
    /\ CommitUnchanged

\* libzip_close: libzip_source_commit_write, then _libzip_progress_end
CloseCommit(fclose_ok, rename_ok, cancel) ==
    /\ fs.state = "file" /\ fs.pc = "commit"
    /\ \E f \in {read_file_COMMIT_WRITE(fs, fclose_ok, rename_ok)} :
           IF f.n < 0
           THEN /\ fs' = CloseFail(f, f.ctx.error)
                /\ ret' = [op |-> "close", step |-> "commit_write", cancel |-> FALSE, registered |-> FALSE,
                           consulted |-> FALSE, n |-> f.n]
                /\ UNCHANGED progress
           ELSE \E p \in {_libzip_progress_end(progress, cancel)} :
                    /\ progress' = p
                    /\ fs' = [f EXCEPT !.pc = "done"]
                    /\ ret' = CloseStep("end", cancel, progress, [progress |-> p, n |-> 0])
    /\ CommitUnchanged

RegisterProgressCallback ==
    \E precision \in {0, One \div 2}, callback \in BOOLEAN, held \in {0, One}, oom \in BOOLEAN :
        LibzipRegisterProgressCallback(precision, callback, held, oom)

RegisterCancelCallback ==
    \E callback \in BOOLEAN, held \in {0, One}, oom \in BOOLEAN :
        LibzipRegisterCancelCallback(callback, held, oom)

SourceFileCreate ==
    /\ fs.state = "none"
    /\ \E files \in [DirNames -> {NoFile, File(<<MaxSurvivors>>)}] : LibzipSourceFileCreate(files)

CloseBegins ==
    /\ fs.state = "file"
    /\ \E survivors \in 1..MaxSurvivors, temp \in TempNames,
          outcome \in {"ok", "malloc", "open", "fdopen"} :
           CloseBegin(survivors, temp, outcome)

CloseStarts == \E cancel \in BOOLEAN : CloseStart(cancel)
CloseSubranges == \E cancel \in BOOLEAN : CloseSubrange(cancel)
CloseWrites == \E fwrite_ok \in BOOLEAN, cancel \in BOOLEAN : CloseWrite(fwrite_ok, cancel)
CloseCommits == \E fclose_ok \in BOOLEAN, rename_ok \in BOOLEAN, cancel \in BOOLEAN :
                    CloseCommit(fclose_ok, rename_ok, cancel)

NextCommit ==
    \/ RegisterProgressCallback \/ RegisterCancelCallback \/ SourceFileCreate
    \/ CloseBegins \/ CloseStarts \/ CloseSubranges \/ CloseWrites \/ CloseCommits
SpecCommit == Init /\ [][NextCommit]_vars

\* a checkpoint with a value to return was made
CloseCheckpoint == ret.op = "close" /\ ret.step \in {"start", "subrange", "update"}

\* the checkpoint of _libzip_progress_end was made
CloseEnd == ret.op = "close" /\ ret.step = "end"

\* the cancel callback was called once for every entry written
ConsultedPerEntry ==
    (fs.state = "file" /\ fs.pc \in {"commit", "done"} /\ progress.allocated /\ progress.callback_cancel) =>
        progress.consulted >= fs.survivors

\* C29, as stated: a registered cancel callback is called at every
\* checkpoint of libzip_close, once per entry at least, and when it returns
\* non-zero, the checkpoint reports the failure and the write fails with
\* CANCELLED
C29_EveryCheckpoint ==
    /\ ((CloseCheckpoint \/ CloseEnd) /\ ret.registered) =>
           /\ ret.consulted
           /\ ret.cancel => (ret.n = -1 /\ fs.pc = "failed" /\ fs.error = ZipError(LIBZIP_ER_CANCELLED, 0))
    /\ ConsultedPerEntry

\* C29: a registered cancel callback is called at every checkpoint of
\* libzip_close, once per entry at least, whatever the precision and whether
\* or not a progress callback is registered. When it returns non-zero at
\* _libzip_progress_start, _libzip_progress_subrange or
\* _libzip_progress_update, the checkpoint returns -1 and the write fails
\* with CANCELLED and is rolled back; what it returns at _libzip_progress_end,
\* after the write was committed, is not used
C29_CancelConsulted ==
    /\ ((CloseCheckpoint \/ CloseEnd) /\ ret.registered) => ret.consulted
    /\ (CloseCheckpoint /\ ret.registered /\ ret.cancel) =>
           /\ ret.n = -1 /\ fs.pc = "failed" /\ fs.error = ZipError(LIBZIP_ER_CANCELLED, 0)
           /\ fs.ctx.tmpname = "NULL" /\ fs.ctx.fout = "NULL"
    /\ (CloseCheckpoint /\ ~(ret.registered /\ ret.cancel)) => (ret.n = 0 /\ fs.pc # "failed")
    /\ CloseEnd => (ret.n = 0 /\ fs.pc = "done")
    /\ ConsultedPerEntry

\* the cancel callback returned non-zero at an update for which the progress
\* callback, registered with a precision of a half, was not called
C29_Witness ==
    /\ ret.op = "close" /\ ret.step = "update" /\ ret.registered /\ ret.consulted /\ ret.cancel
    /\ progress.callback_progress /\ progress.precision = One \div 2
    /\ progress.reported = 0 /\ progress.consulted > 1
    /\ fs.pc = "failed" /\ fs.error = ZipError(LIBZIP_ER_CANCELLED, 0)

\* C30: as long as libzip_close has not committed the write, the archive
\* file is what it was when libzip_close began; after a write that was
\* cancelled or failed, at whatever step, every file of the directory is what
\* it was, so that no temporary file is left, and the source holds no
\* temporary name and no stream; after the commit the archive file is what
\* was written to the temporary file, whose name no longer exists
C30_CancelSafe ==
    fs.state = "file" =>
        /\ fs.pc # "done" => fs.files["fname"] = fs.pre["fname"]
        /\ fs.pc = "failed" =>
               /\ fs.files = fs.pre
               /\ fs.ctx.tmpname = "NULL" /\ fs.ctx.fout = "NULL"
        /\ fs.pc = "done" =>
               /\ fs.files["fname"].exists
               /\ Len(fs.files["fname"].data) = fs.survivors * MaxChunks
               /\ \A t \in TempNames : fs.files[t] = fs.pre[t]

\* the write of the second entry over an existing archive was cancelled, and
\* the archive and another temporary file of the directory are as they were
C30_Witness ==
    /\ fs.state = "file" /\ fs.pc = "failed"
    /\ ret.op = "close" /\ ret.step = "update" /\ ret.cancel /\ ret.registered
    /\ fs.entry > 0
    /\ fs.pre["fname"].exists /\ fs.files["fname"] = fs.pre["fname"]
    /\ \E t \in TempNames : fs.pre[t].exists
    /\ \E t \in TempNames : ~fs.files[t].exists


(* ---------------- the sources of an archive's entries ---------------- *)
LIBZIP_ER_ZIPCLOSED == 8

\* how many sources libzip_source_libzip_file_create is asked for
MaxOpenSource == 2

\* the ids of the libzip_source_t objects: each call makes a window source
\* and, for a whole entry with a CRC, a CRC layer on it
ZipSourceIds == 1..(2 * MaxOpenSource)

\* a libzip_source_t: src->source_closed, src->error, src->open_count and
\* src->eof, the context's error, and for a window ctx->source_archive
ZipSource(kind, lower, source_archive) ==
    [kind |-> kind, lower |-> lower, live |-> TRUE, source_closed |-> FALSE,
     error |-> ZipError(LIBZIP_ER_OK, 0), ctx_error |-> ZipError(LIBZIP_ER_OK, 0),
     open_count |-> 0, eof |-> FALSE, source_archive |-> source_archive]

\* the archive: za->open_source[0 .. nopen_source-1] and nopen_source_alloc;
\* alive is false once the libzip_t has been freed
ZipArchive == [alive |-> TRUE, open_source |-> <<>>, nopen_source_alloc |-> 0]

\* result: [ok, za]
_libzip_register_source(za, src, oom) ==
    IF Len(za.open_source) + 1 >= za.nopen_source_alloc /\ oom
    THEN [ok |-> FALSE, za |-> za]
    ELSE [ok |-> TRUE,
          za |-> [za EXCEPT !.open_source = Append(@, src),
                            !.nopen_source_alloc =
                                IF Len(za.open_source) + 1 >= @ THEN @ + 10 ELSE @]]

_libzip_deregister_source(za, src) ==
    IF \E i \in 1..Len(za.open_source) : za.open_source[i] = src
    THEN Let(CHOOSE i \in 1..Len(za.open_source) :
                 /\ za.open_source[i] = src
                 /\ \A j \in 1..(i - 1) : za.open_source[j] # src,
             LAMBDA i :
                 [za EXCEPT !.open_source =
                     SubSeq([za.open_source EXCEPT ![i] = za.open_source[Len(za.open_source)]],
                            1, Len(za.open_source) - 1)])
    ELSE za

\* a variant that leaves the source open for use
_libzip_source_invalidate_error_only(src) ==
    [src EXCEPT !.error = IF @.zip_err = LIBZIP_ER_OK
                          THEN ZipError(LIBZIP_ER_ZIPCLOSED, 0) ELSE @]

_libzip_source_invalidate(src) ==
    [src EXCEPT !.source_closed = TRUE,
                !.error = IF @.zip_err = LIBZIP_ER_OK
                          THEN ZipError(LIBZIP_ER_ZIPCLOSED, 0) ELSE @]

\* what a call on a source gives: the sources afterwards, the value
\* returned, the sources whose callback ran, and whether a callback used the
\* libzip_t after it was freed
SrcResult(srcs, n, called, touched) ==
    [srcs |-> srcs, n |-> n, called |-> called, touched |-> touched]

\* the callback of source id failed with err: _libzip_source_call copies the
\* context's error to src->error
SrcCallFail(srcs, id, err, called, touched) ==
    SrcResult([srcs EXCEPT ![id].ctx_error = err, ![id].error = err], -1, called, touched)

LIBZIP_SOURCE_IS_OPEN_READING(src) == src.open_count > 0

\* libzip_source_seek; whence_ok: whence is one of SEEK_SET, SEEK_CUR and
\* SEEK_END; in_range: the window accepts the offset
RECURSIVE libzip_source_seek(_, _, _, _)
libzip_source_seek(srcs, id, whence_ok, in_range) ==
    Let(srcs[id], LAMBDA src :
        IF src.source_closed THEN SrcResult(srcs, -1, {}, FALSE)
        ELSE IF ~LIBZIP_SOURCE_IS_OPEN_READING(src) \/ ~whence_ok
        THEN SrcResult([srcs EXCEPT ![id].error = ZipError(LIBZIP_ER_INVAL, 0)], -1, {}, FALSE)
        ELSE IF src.kind = "window"
        THEN IF in_range
             THEN SrcResult([srcs EXCEPT ![id].eof = FALSE], 0, {id}, FALSE)
             ELSE SrcCallFail(srcs, id, ZipError(LIBZIP_ER_INVAL, 0), {id}, FALSE)
        ELSE
        Let(libzip_source_seek(srcs, src.lower, whence_ok, in_range), LAMBDA low :
            IF low.n < 0
            THEN SrcCallFail(low.srcs, id, low.srcs[src.lower].error,
                             low.called \cup {id}, low.touched)
            ELSE SrcResult([low.srcs EXCEPT ![id].eof = FALSE], 0,
                           low.called \cup {id}, low.touched)))

\* libzip_source_read; n: what the window's callback returns
RECURSIVE libzip_source_read(_, _, _)
libzip_source_read(srcs, id, n) ==
    Let(srcs[id], LAMBDA src :
        IF src.source_closed THEN SrcResult(srcs, -1, {}, FALSE)
        ELSE IF ~LIBZIP_SOURCE_IS_OPEN_READING(src)
        THEN SrcResult([srcs EXCEPT ![id].error = ZipError(LIBZIP_ER_INVAL, 0)], -1, {}, FALSE)
        ELSE IF src.eof THEN SrcResult(srcs, 0, {}, FALSE)
        ELSE IF src.kind = "window"
        THEN SrcResult([srcs EXCEPT ![id].eof = (n = 0)], n, {id}, FALSE)
        ELSE
        Let(libzip_source_read(srcs, src.lower, n), LAMBDA low :
            IF low.n < 0
            THEN SrcCallFail(low.srcs, id, low.srcs[src.lower].error,
                             low.called \cup {id}, low.touched)
            ELSE SrcResult([low.srcs EXCEPT ![id].eof = (low.n = 0)], low.n,
                           low.called \cup {id}, low.touched)))

\* libzip_source_open; a window made for an entry of the archive looks up
\* the entry's offset in ctx->source_archive when it is opened first
RECURSIVE libzip_source_open(_, _, _)
libzip_source_open(srcs, za, id) ==
    Let(srcs[id], LAMBDA src :
        IF src.source_closed THEN SrcResult(srcs, -1, {}, FALSE)
        ELSE IF LIBZIP_SOURCE_IS_OPEN_READING(src)
        THEN SrcResult([srcs EXCEPT ![id].open_count = @ + 1, ![id].eof = FALSE], 0, {}, FALSE)
        ELSE IF src.kind = "window"
        THEN SrcResult([srcs EXCEPT ![id].open_count = 1, ![id].eof = FALSE,
                                    ![id].source_archive = FALSE],
                       0, {id}, src.source_archive /\ ~za.alive)
        ELSE
        Let(libzip_source_open(srcs, za, src.lower), LAMBDA low :
            IF low.n < 0
            THEN SrcResult([low.srcs EXCEPT ![id].error = low.srcs[src.lower].error], -1,
                           low.called, low.touched)
            ELSE SrcResult([low.srcs EXCEPT ![id].open_count = 1, ![id].eof = FALSE], 0,
                           low.called \cup {id}, low.touched)))

\* libzip_source_free of a source that is not open: the layers above a
\* window hold the only reference to it, and a registered source leaves
\* za->open_source unless the archive is gone
\* result: [srcs, za]
libzip_source_free(srcs, za, id) ==
    Let(IF srcs[id].kind = "window" THEN {id} ELSE {id, srcs[id].lower}, LAMBDA chain :
        [srcs |-> [i \in DOMAIN srcs |-> IF i \in chain THEN [srcs[i] EXCEPT !.live = FALSE] ELSE srcs[i]],
         za |-> IF \E i \in chain : srcs[i].kind = "window" /\ ~srcs[i].source_closed
                THEN _libzip_deregister_source(za, CHOOSE i \in chain : srcs[i].kind = "window")
                ELSE za])

\* the end of libzip_source_libzip_file_create: the window source on the
\* archive's data is registered with the archive, then the CRC layer is put
\* on it
\* result: [ok, srcs, za, src]
ZipFileSources(srcs, za, needs_crc, oom) ==
    Let(Len(srcs) + 1, LAMBDA w :
    Let(_libzip_register_source(za, w, oom), LAMBDA reg :
        IF ~reg.ok THEN [ok |-> FALSE, srcs |-> srcs, za |-> za, src |-> 0]
        ELSE IF needs_crc
        THEN [ok |-> TRUE, za |-> reg.za, src |-> w + 1,
              srcs |-> srcs \o <<ZipSource("window", 0, TRUE), ZipSource("crc", w, FALSE)>>]
        ELSE [ok |-> TRUE, za |-> reg.za, src |-> w,
              srcs |-> Append(srcs, ZipSource("window", 0, TRUE))]))

\* libzip_discard: every registered source is invalidated and the archive
\* is freed
libzip_discard_sources(srcs, za) ==
    [srcs |-> [i \in DOMAIN srcs |->
                 IF \E k \in 1..Len(za.open_source) : za.open_source[k] = i
                 THEN _libzip_source_invalidate(srcs[i]) ELSE srcs[i]],
     za |-> [za EXCEPT !.alive = FALSE]]

\* the sources the caller holds: those no layer is on
TopSources(srcs) ==
    {i \in DOMAIN srcs : srcs[i].live /\ ~\E j \in DOMAIN srcs : srcs[j].lower = i}

ZipFileStep(l, r, op, id, before) ==
    /\ layer' = l
    /\ ret' = [op |-> op, id |-> id, n |-> r.n, called |-> r.called, touched |-> r.touched,
               before |-> before, code |-> LIBZIP_ER_OK]
    /\ UNCHANGED <<cursor, table, open, ch_flags, entry, names, comment, owner, crc_src, progress, fs>>

\* an archive is opened for its entries to be read through sources
ZipFileArchiveOpen ==
    /\ layer.kind = "none"
    /\ ZipFileStep([kind |-> "zip_file", za |-> ZipArchive, srcs |-> <<>>, touched |-> FALSE],
                   SrcResult(<<>>, 0, {}, FALSE), "archive_open", 0, <<>>)

ZipFileCreate(needs_crc, oom) ==
    /\ layer.kind = "zip_file"
    /\ layer.za.alive
    /\ Len(layer.srcs) + 2 <= 2 * MaxOpenSource
    /\ \E r \in {ZipFileSources(layer.srcs, layer.za, needs_crc, oom)} :
           ZipFileStep([layer EXCEPT !.srcs = r.srcs, !.za = r.za],
                       SrcResult(r.srcs, IF r.ok THEN 0 ELSE -1, {}, FALSE),
                       "file_create", r.src, layer.srcs)

ZipFileCall(op, id, r) ==
    ZipFileStep([layer EXCEPT !.srcs = r.srcs, !.touched = @ \/ r.touched], r, op, id, layer.srcs)

ZipFileOpen(id) ==
    /\ layer.kind = "zip_file"
    /\ id \in TopSources(layer.srcs)
    /\ layer.srcs[id].open_count = 0
    /\ ZipFileCall("open", id, libzip_source_open(layer.srcs, layer.za, id))

ZipFileRead(id, n) ==
    /\ layer.kind = "zip_file"
    /\ id \in TopSources(layer.srcs)
    /\ ZipFileCall("read", id, libzip_source_read(layer.srcs, id, n))

ZipFileSeek(id, whence_ok, in_range) ==
    /\ layer.kind = "zip_file"
    /\ id \in TopSources(layer.srcs)
    /\ ZipFileCall("seek", id, libzip_source_seek(layer.srcs, id, whence_ok, in_range))

ZipFileFree(id) ==
    /\ layer.kind = "zip_file"
    /\ id \in TopSources(layer.srcs)
    /\ layer.srcs[id].open_count = 0
    /\ \E r \in {libzip_source_free(layer.srcs, layer.za, id)} :
           ZipFileStep([layer EXCEPT !.srcs = r.srcs, !.za = r.za],
                       SrcResult(r.srcs, 0, {}, FALSE), "free", id, layer.srcs)

ZipFileDiscard ==
    /\ layer.kind = "zip_file"
    /\ layer.za.alive
    /\ \E r \in {libzip_discard_sources(layer.srcs, layer.za)} :
           ZipFileStep([layer EXCEPT !.srcs = r.srcs, !.za = r.za],
                       SrcResult(r.srcs, 0, {}, FALSE), "discard", 0, layer.srcs)

ZipFileCreates == \E needs_crc \in BOOLEAN, oom \in BOOLEAN : ZipFileCreate(needs_crc, oom)

ZipFileOpens == \E id \in ZipSourceIds : ZipFileOpen(id)

ZipFileReads == \E id \in ZipSourceIds, n \in 0..1 : ZipFileRead(id, n)

ZipFileSeeks == \E id \in ZipSourceIds, whence_ok \in BOOLEAN, in_range \in BOOLEAN : ZipFileSeek(id, whence_ok, in_range)

ZipFileFrees == \E id \in ZipSourceIds : ZipFileFree(id)

NextZipFile ==
    \/ ZipFileArchiveOpen \/ ZipFileCreates \/ ZipFileOpens \/ ZipFileReads
    \/ ZipFileSeeks \/ ZipFileFrees \/ ZipFileDiscard

SpecZipFile == Init /\ [][NextZipFile]_vars

(* ---------------- C31: sources after the archive is discarded ---------------- *)
ZipFileUsed == layer.kind = "zip_file"

\* the sources registered with the archive
Registered == {layer.za.open_source[k] : k \in 1..Len(layer.za.open_source)}

\* the last call was op on a source made from the archive, after the
\* archive was discarded
CalledAfterDiscard ==
    /\ ZipFileUsed
    /\ ~layer.za.alive
    /\ ret.op \in {"open", "read", "seek"}

NextReplace == Open \/ FileAdd \/ FileAddOverwrite \/ FileReplace \/ SetFileCompression

SpecReplace == Init /\ [][NextReplace]_vars

\* the last call attached a source to an entry
Replaced ==
    /\ ret.op \in {"file_replace", "file_add"}
    /\ ret.code = LIBZIP_ER_OK
    /\ ret.idx >= 0

EntryBefore(idx) == IF idx < Len(entry) THEN entry[idx + 1] ELSE NewEntry

\* the entry had no compression method chosen by the caller
MethodNotChosen(e) ==
    \/ e.changes = NoDirent
    \/ LIBZIP_DIRENT_COMP_METHOD \notin e.changes.changed
    \/ e.changes.comp_method = LIBZIP_CM_REPLACED_DEFAULT

MaxTail == 3

\* the buffer after _libzip_buffer_peek: a failed peek clears ok
_libzip_buffer_peek_at(buffer, length) ==
    IF _libzip_buffer_peek(buffer, length) THEN buffer ELSE [buffer EXCEPT !.ok = FALSE]

_libzip_buffer_left(buffer) == IF buffer.ok THEN buffer.size - buffer.offset ELSE 0

\* the number of bytes _libzip_buffer_read copies
_libzip_buffer_read(buffer, length) ==
    IF _libzip_buffer_left(buffer) < length THEN _libzip_buffer_left(buffer) ELSE length

\* the last buffer call: the bytes it was given or returned are not kept,
\* written is the set of offsets a put has stored a byte at
BufferStep(op, arg, b, n, written) ==
    /\ cursor' = [made |-> TRUE, b |-> b, written |-> written]
    /\ ret' = [op |-> op, arg |-> arg, n |-> n, code |-> LIBZIP_ER_OK]
    /\ UNCHANGED <<open, ch_flags, entry, names, comment, owner, crc_src, layer, progress, fs, table>>

LibzipBufferNew(data, tail) ==
    /\ ~cursor.made
    /\ BufferStep("buffer_new", tail, _libzip_buffer_new(data, tail), 0, {})

\* _libzip_buffer_get and the fixed-width readers built on it
LibzipBufferGet(length) ==
    /\ cursor.made
    /\ BufferStep("buffer_get", length, _libzip_buffer_get(cursor.b, length),
                  IF _libzip_buffer_peek(cursor.b, length) THEN cursor.b.offset ELSE NoIndex,
                  cursor.written)

LibzipBufferPeek(length) ==
    /\ cursor.made
    /\ BufferStep("buffer_peek", length, _libzip_buffer_peek_at(cursor.b, length),
                  IF _libzip_buffer_peek(cursor.b, length) THEN cursor.b.offset ELSE NoIndex,
                  cursor.written)

\* _libzip_buffer_put and the fixed-width writers: a get, then the bytes
\* are stored
LibzipBufferPut(length) ==
    /\ cursor.made
    /\ BufferStep("buffer_put", length, _libzip_buffer_get(cursor.b, length),
                  IF _libzip_buffer_peek(cursor.b, length) THEN 0 ELSE -1,
                  IF _libzip_buffer_peek(cursor.b, length)
                  THEN cursor.written \cup (cursor.b.offset .. (cursor.b.offset + length - 1))
                  ELSE cursor.written)

LibzipBufferRead(length) ==
    /\ cursor.made
    /\ \E n \in {_libzip_buffer_read(cursor.b, length)} :
           BufferStep("buffer_read", length,
                      IF n > 0 THEN _libzip_buffer_get(cursor.b, n) ELSE cursor.b, n, cursor.written)

LibzipBufferSkip(length) ==
    /\ cursor.made
    /\ \E b \in {_libzip_buffer_skip(cursor.b, length)} :
           BufferStep("buffer_skip", length, b, IF b.ok THEN 0 ELSE -1, cursor.written)

LibzipBufferSetOffset(offset) ==
    /\ cursor.made
    /\ \E b \in {_libzip_buffer_set_offset(cursor.b, offset)} :
           BufferStep("buffer_set_offset", offset, b, IF b.ok THEN 0 ELSE -1, cursor.written)

\* the lengths of the fixed-width accessors, and 0
BufferLengths == {0, 1, 2, 4, 8}

CursorNew == \E data \in {<<>>, <<0>>}, tail \in 0..MaxTail : LibzipBufferNew(data, tail)

CursorGet == \E length \in BufferLengths : LibzipBufferGet(length)

CursorPeek == \E length \in BufferLengths : LibzipBufferPeek(length)

CursorPut == \E length \in BufferLengths : LibzipBufferPut(length)

CursorRead == \E length \in BufferLengths : LibzipBufferRead(length)

CursorSkip == \E length \in BufferLengths : LibzipBufferSkip(length)

CursorSetOffset == \E offset \in BufferLengths : LibzipBufferSetOffset(offset)

NextBuffer ==
    \/ CursorNew \/ CursorGet \/ CursorPeek \/ CursorPut \/ CursorRead \/ CursorSkip
    \/ CursorSetOffset

SpecBuffer == Init /\ [][NextBuffer]_vars

(* ---------------- C33: the ok flag is sticky ---------------- *)
\* C33: once ok is false, no get, peek, skip, put or read makes it true
\* again; only a call of set_offset does
C33_OkSticky ==
    [][(cursor.made /\ ~cursor.b.ok /\ ret'.op # "buffer_set_offset") => ~cursor'.b.ok]_vars


(* ---------------- zip_hash.c: the size of the table ---------------- *)
HASH_MIN_SIZE == 256

\* 0x80000000, as the pair <<v \div 65536, v % 65536>>
HASH_MAX_SIZE == <<32768, 0>>

\* how many names without an original index are added besides the named ones
MaxNew == 2

\* the numbers of entries of the archives that are opened
MaxOrig == 193

Pair(v) == <<v \div 65536, v % 65536>>

\* nentries > table_size * HASH_MAX_FILL
AboveMaxFill(nentries, table_size) == 4 * nentries > 3 * table_size

\* nentries < table_size * HASH_MIN_FILL
BelowMinFill(nentries, table_size) == 100 * nentries < table_size

\* the nodes with a name of Names are kept one by one; of the other nodes
\* only their number is kept, orig_others with an original index and
\* new_others without one
_libzip_hash_new ==
    [made |-> TRUE, table_size |-> 0, nentries |-> 0, nodes |-> EmptyHash,
     orig_others |-> 0, new_others |-> 0]

\* result: [ok, t]
hash_resize(t, new_size, oom) ==
    IF new_size = t.table_size THEN [ok |-> TRUE, t |-> t]
    ELSE IF oom THEN [ok |-> FALSE, t |-> t]
    ELSE [ok |-> TRUE, t |-> [t EXCEPT !.table_size = new_size]]

\* the number of binary digits of v
RECURSIVE BitLen(_)
BitLen(v) == IF v = 0 THEN 0 ELSE 1 + BitLen(v \div 2)

RECURSIVE Pow2(_)
Pow2(n) == IF n = 0 THEN 1 ELSE 2 * Pow2(n - 1)

\* v |= v >> 1; ... v |= v >> 16: every digit below the highest one is set
Smear(v) == Pow2(BitLen(v)) - 1

\* capacity / HASH_MAX_FILL truncated to 32 bits, then rounded up to a
\* power of two; capacity is not 0 here, so v is not 0 and v-- does not wrap
size_for_capacity(capacity) ==
    Let((4 * capacity) \div 3, LAMBDA v :
        IF Gt64(Pair(v), HASH_MAX_SIZE) THEN HASH_MAX_SIZE[1] * 65536
        ELSE Smear(v - 1) + 1)

\* result: [ok, t]
_libzip_hash_reserve_capacity(t, capacity, oom) ==
    IF capacity = 0 THEN [ok |-> TRUE, t |-> t]
    ELSE Let(size_for_capacity(capacity), LAMBDA new_size :
             IF new_size <= t.table_size THEN [ok |-> TRUE, t |-> t]
             ELSE hash_resize(t, new_size, oom))

HashTableResult(ok, err, t) == [ok |-> ok, err |-> err, t |-> t]

\* the table after a node was inserted: nentries++ and the doubling; a
\* failed doubling leaves the node in the table, with the original index -1
\* and a current index that was never assigned (garbage)
HashInserted(t, name, node, oom_resize, garbage, is_new_other) ==
    Let([t EXCEPT !.nentries = @ + 1], LAMBDA t1 :
    Let(IF AboveMaxFill(t1.nentries, t1.table_size) /\ Lt64(Pair(t1.table_size), HASH_MAX_SIZE)
        THEN hash_resize(t1, t1.table_size * 2, oom_resize)
        ELSE [ok |-> TRUE, t |-> t1], LAMBDA r :
        IF ~r.ok
        THEN HashTableResult(FALSE, LIBZIP_ER_MEMORY,
                 IF name = ""
                 THEN [t1 EXCEPT !.new_others = @ + 1]
                 ELSE [t1 EXCEPT !.nodes = HashPut(@, name, [orig_index |-> NoIndex,
                                                              current_index |-> garbage])])
        ELSE HashTableResult(TRUE, LIBZIP_ER_OK,
                 IF name = ""
                 THEN IF is_new_other THEN [r.t EXCEPT !.new_others = @ + 1]
                      ELSE [r.t EXCEPT !.orig_others = @ + 1]
                 ELSE [r.t EXCEPT !.nodes = HashPut(@, name, node)])))

\* _libzip_hash_add with the table: the first resize, the search and the
\* node as in _libzip_hash_add above, the insertion
_libzip_hash_add_sized(t, name, index, flags, oom_entry, oom_resize, garbage) ==
    Let(IF t.table_size = 0 THEN hash_resize(t, HASH_MIN_SIZE, oom_resize)
        ELSE [ok |-> TRUE, t |-> t], LAMBDA r0 :
        IF ~r0.ok THEN HashTableResult(FALSE, LIBZIP_ER_MEMORY, t)
        ELSE
        Let(_libzip_hash_add(r0.t.nodes, name, index, flags, oom_entry), LAMBDA a :
            IF ~a.ok THEN HashTableResult(FALSE, a.err, r0.t)
            ELSE IF name \in DOMAIN r0.t.nodes
            THEN HashTableResult(TRUE, LIBZIP_ER_OK, [r0.t EXCEPT !.nodes = a.hash])
            ELSE HashInserted(r0.t, name, a.hash[name], oom_resize, garbage, FALSE)))

\* _libzip_hash_add of a name that is in no node, "" here
_libzip_hash_add_other(t, flags, oom_entry, oom_resize) ==
    Let(IF t.table_size = 0 THEN hash_resize(t, HASH_MIN_SIZE, oom_resize)
        ELSE [ok |-> TRUE, t |-> t], LAMBDA r0 :
        IF ~r0.ok THEN HashTableResult(FALSE, LIBZIP_ER_MEMORY, t)
        ELSE IF oom_entry THEN HashTableResult(FALSE, LIBZIP_ER_MEMORY, r0.t)
        ELSE HashInserted(r0.t, "", NoIndex, oom_resize, NoIndex, LIBZIP_FL_UNCHANGED \notin flags))

\* the table after a node was removed: nentries-- and the halving
HashRemoved(t, oom) ==
    Let([t EXCEPT !.nentries = @ - 1], LAMBDA t1 :
    Let(IF BelowMinFill(t1.nentries, t1.table_size) /\ t1.table_size > HASH_MIN_SIZE
        THEN hash_resize(t1, t1.table_size \div 2, oom)
        ELSE [ok |-> TRUE, t |-> t1], LAMBDA r :
        HashTableResult(r.ok, IF r.ok THEN LIBZIP_ER_OK ELSE LIBZIP_ER_MEMORY, r.t)))

_libzip_hash_delete_sized(t, name, oom) ==
    IF t.nentries = 0 THEN HashTableResult(FALSE, LIBZIP_ER_NOENT, t)
    ELSE
    Let(_libzip_hash_delete(t.nodes, name), LAMBDA d :
        IF ~d.ok THEN HashTableResult(FALSE, d.err, t)
        ELSE IF name \in DOMAIN d.hash
        THEN HashTableResult(TRUE, LIBZIP_ER_OK, [t EXCEPT !.nodes = d.hash])
        ELSE HashRemoved([t EXCEPT !.nodes = d.hash], oom))

\* _libzip_hash_delete of a name that is in a node without original index
_libzip_hash_delete_other(t, oom) == HashRemoved([t EXCEPT !.new_others = @ - 1], oom)

\* the size the loop of _libzip_hash_revert stops at
RECURSIVE RevertSize(_, _)
RevertSize(nentries, new_size) ==
    IF BelowMinFill(nentries, new_size) /\ new_size > HASH_MIN_SIZE
    THEN RevertSize(nentries, new_size \div 2) ELSE new_size

\* result: [ok, err, t]
_libzip_hash_revert(t, oom) ==
    Let({n \in DOMAIN t.nodes : t.nodes[n].orig_index # NoIndex}, LAMBDA kept :
    Let([t EXCEPT !.nodes = [n \in kept |-> [t.nodes[n] EXCEPT !.current_index = t.nodes[n].orig_index]],
                  !.nentries = Cardinality(kept) + t.orig_others,
                  !.new_others = 0], LAMBDA t1 :
        IF BelowMinFill(t1.nentries, t1.table_size) /\ t1.table_size > HASH_MIN_SIZE
        THEN Let(hash_resize(t1, RevertSize(t1.nentries, t1.table_size \div 2), oom), LAMBDA r :
                 HashTableResult(r.ok, IF r.ok THEN LIBZIP_ER_OK ELSE LIBZIP_ER_MEMORY, r.t))
        ELSE HashTableResult(TRUE, LIBZIP_ER_OK, t1)))

\* the size of the table after the loop of _libzip_open has added n names
\* to a table of size s: every add doubles the table once if it is filled
\* above HASH_MAX_FILL
RECURSIVE OpenHashSize(_, _)
OpenHashSize(s, n) ==
    IF AboveMaxFill(n, s) /\ Lt64(Pair(s), HASH_MAX_SIZE) THEN OpenHashSize(s * 2, n) ELSE s

\* the loop of _libzip_open: one node per entry of the archive, added for
\* the unchanged view, every allocation succeeding
OpenHashOthers(t, n) ==
    IF n = 0 THEN t
    ELSE [t EXCEPT !.nentries = n, !.orig_others = n,
                   !.table_size = OpenHashSize(IF @ = 0 THEN HASH_MIN_SIZE ELSE @, n)]

HashStep(op, name, flags, r) ==
    /\ table' = r.t
    /\ ret' = [op |-> op, name |-> name, flags |-> flags, ok |-> r.ok, code |-> r.err,
               size_before |-> IF table.made THEN table.table_size ELSE 0,
               nentries_before |-> IF table.made THEN table.nentries ELSE 0]
    /\ UNCHANGED <<open, ch_flags, entry, names, comment, owner, crc_src, layer, progress, fs, cursor>>

\* _libzip_hash_new and the name index _libzip_open builds for an archive
\* of nentry entries
LibzipHashOpen(nentry, oom) ==
    /\ ~table.made
    /\ HashStep("hash_open", "", {LIBZIP_FL_UNCHANGED},
                HashTableResult(TRUE, LIBZIP_ER_OK,
                    OpenHashOthers(_libzip_hash_reserve_capacity(_libzip_hash_new, nentry, oom).t, nentry)))

LibzipHashReserveCapacity(capacity, oom) ==
    /\ table.made
    /\ \E r \in {_libzip_hash_reserve_capacity(table, capacity, oom)} :
           HashStep("hash_reserve_capacity", "", {},
                    HashTableResult(r.ok, IF r.ok THEN LIBZIP_ER_OK ELSE LIBZIP_ER_MEMORY, r.t))

LibzipHashAdd(name, index, flags, oom_entry, oom_resize, garbage) ==
    /\ table.made
    /\ HashStep("hash_add", name, flags,
                _libzip_hash_add_sized(table, name, index, flags, oom_entry, oom_resize, garbage))

LibzipHashAddOther(oom_resize) ==
    /\ table.made
    /\ table.new_others < MaxNew
    /\ HashStep("hash_add", "", {}, _libzip_hash_add_other(table, {}, FALSE, oom_resize))

LibzipHashDelete(name, oom) ==
    /\ table.made
    /\ HashStep("hash_delete", name, {}, _libzip_hash_delete_sized(table, name, oom))

LibzipHashDeleteOther(oom) ==
    /\ table.made
    /\ table.new_others > 0
    /\ HashStep("hash_delete", "", {}, _libzip_hash_delete_other(table, oom))

LibzipHashRevert(oom) ==
    /\ table.made
    /\ HashStep("hash_revert", "", {}, _libzip_hash_revert(table, oom))

HashNames == {"a", "b"}

HashOpen == \E nentry \in {0, 3, MaxOrig - 2, MaxOrig}, oom \in BOOLEAN : LibzipHashOpen(nentry, oom)

HashReserveCapacity == \E capacity \in {0, 1, MaxOrig}, oom \in BOOLEAN : LibzipHashReserveCapacity(capacity, oom)

HashAdd ==
    \E name \in HashNames, index \in 0..1, flags \in {{}, {LIBZIP_FL_UNCHANGED}},
       oom_entry \in BOOLEAN, oom_resize \in BOOLEAN, garbage \in {NoIndex, 0} :
        LibzipHashAdd(name, index, flags, oom_entry, oom_resize, garbage)

HashAddOther == \E oom_resize \in BOOLEAN : LibzipHashAddOther(oom_resize)

HashDelete == \E name \in HashNames, oom \in BOOLEAN : LibzipHashDelete(name, oom)

HashDeleteOther == \E oom \in BOOLEAN : LibzipHashDeleteOther(oom)

HashRevert == \E oom \in BOOLEAN : LibzipHashRevert(oom)

NextHash ==
    \/ HashOpen \/ HashReserveCapacity \/ HashAdd \/ HashAddOther \/ HashDelete
    \/ HashDeleteOther \/ HashRevert

SpecHash == Init /\ [][NextHash]_vars

(* ---------------- C34: the size of the table ---------------- *)
IsPowerOfTwo(v) == v > 0 /\ Pow2(BitLen(v) - 1) = v

\* C34: an allocated table has a size that is a power of two between 256
\* and 2^31
C34_TableSize ==
    (table.made /\ table.table_size # 0) =>
        /\ IsPowerOfTwo(table.table_size)
        /\ table.table_size >= HASH_MIN_SIZE
        /\ ~Gt64(Pair(table.table_size), HASH_MAX_SIZE)

(* ---------------- C35: the original index of a node ---------------- *)
\* the last call may set an original index: an add with the flag for the
\* unchanged view
SetsOriginal(r, n) == r.op = "hash_add" /\ LIBZIP_FL_UNCHANGED \in r.flags /\ r.name = n

\* C35: a node that has an original index keeps the node and the index
\* through every add, delete, resize and revert, and a node gets an original
\* index only from an add with the flag for the unchanged view
C35_OriginalIndexKept ==
    [][(table.made /\ table'.made) =>
        /\ \A n \in DOMAIN table.nodes :
               table.nodes[n].orig_index # NoIndex =>
                   /\ n \in DOMAIN table'.nodes
                   /\ table'.nodes[n].orig_index = table.nodes[n].orig_index
        /\ \A n \in DOMAIN table'.nodes :
               ~SetsOriginal(ret', n) =>
                   table'.nodes[n].orig_index =
                       IF n \in DOMAIN table.nodes THEN table.nodes[n].orig_index ELSE NoIndex
        /\ table'.orig_others = table.orig_others]_vars

\* a revert has dropped nodes without an original index, reset the current
\* index of a node that has one, and halved the table
C35_Witness ==
    /\ table.made
    /\ ret.op = "hash_revert"
    /\ ret.ok
    /\ table.table_size < ret.size_before
    /\ table.nentries < ret.nentries_before
    /\ \E n \in DOMAIN table.nodes :
           /\ table.nodes[n].orig_index # NoIndex
           /\ table.nodes[n].current_index = table.nodes[n].orig_index


(* ================= zip_dirent.c: a header written and read back ================= *)
\* the two 32-bit words _libzip_buffer_put_64 stores for v, low word first;
\* a word with its top bit set is the negative integer with the same bits
_libzip_buffer_put_64(v) ==
    <<(IF (v[1] % 65536) >= 32768 THEN (v[1] % 65536) - 65536 ELSE v[1] % 65536) * 65536 + v[2],
      v[1] \div 65536>>

\* the data of the ZIP64 extra field written for the values of payload
RECURSIVE Zip64Words(_)
Zip64Words(payload) ==
    IF payload = <<>> THEN <<>>
    ELSE _libzip_buffer_put_64(Head(payload)) \o Zip64Words(Tail(payload))

\* the dirent _libzip_dirent_read fills in from the fixed part of a header
\* written by _libzip_dirent_write: a local header has no offset
DirentFromHeader(hdr, local) ==
    [uncomp_size |-> hdr.uncomp_size, comp_size |-> hdr.comp_size,
     offset |-> IF local THEN <<0, 0>> ELSE hdr.offset, disk_number |-> 0]

\* the ZIP64 part of _libzip_dirent_read for a header written by
\* _libzip_dirent_write: the extra field is looked up if one of the three
\* fields holds the marker, and applied if it is there
_libzip_dirent_read_zip64(hdr, local) ==
    Let(DirentFromHeader(hdr, local), LAMBDA zde :
        IF /\ LIBZIP_UINT32_MAX \in {zde.uncomp_size, zde.comp_size, zde.offset}
           /\ hdr.has_ef64
        THEN libzip_dirent_process_ef_zip64(zde, Zip64Words(hdr.ef64), 0, local, FALSE)
        ELSE Ef64Result(TRUE, zde, LIBZIP_ER_OK, 0))

\* _libzip_dirent_write for one header, then _libzip_dirent_read on what
\* was written
LibzipDirentWriteRead(de, flags) ==
    /\ ~open
    /\ ret.op = "none"
    /\ \E hdr \in {_libzip_dirent_write(de, flags)} :
           ret' = [op |-> "dirent_write_read", code |-> LIBZIP_ER_OK, de |-> de, flags |-> flags,
                   hdr |-> hdr, local |-> LIBZIP_FL_LOCAL \in flags,
                   read |-> _libzip_dirent_read_zip64(hdr, LIBZIP_FL_LOCAL \in flags)]
    /\ UNCHANGED <<cursor, table, layer, progress, fs, crc_src, open, ch_flags, entry, names, comment, owner>>

DirentWriteRead ==
    /\ ret.op = "none"
    /\ \E de \in WriteDirents, flags \in WriteFlagSets : LibzipDirentWriteRead(de, flags)

NextWriteRead == DirentWriteRead
SpecWriteRead == Init /\ [][NextWriteRead]_vars


(* ---------------- C36: sizes and offset survive writing and reading ---------------- *)
\* C36: a dirent that is written and whose written bytes are parsed back
\* has the same compressed size, uncompressed size and (central form)
\* local-header offset as before, for every value of those fields
C36_SameSizes ==
    ret.op = "dirent_write_read" =>
        /\ ret.read.ok
        /\ ret.read.zde.comp_size = ret.de.comp_size
        /\ ret.read.zde.uncomp_size = ret.de.uncomp_size
        /\ ~ret.local => ret.read.zde.offset = ret.de.offset


(* ---------------- C37: the stream of the compress layer ---------------- *)
\* a layer just created over the same lower source and opened
CompressFresh(l) ==
    compress_callback_OPEN(libzip_source_compress(l.plain, l.comp_size, l.ctx.method, FALSE).layer,
                           TRUE, TRUE).layer

\* the layer after one READ that has room for the complete stream
CompressWhole(l) == compress_read(CompressFresh(l), MaxComp, MaxBuf, 0).layer

\* C37: when the stream of the compress layer has ended without error, the
\* choice between stored and compressed output and the bytes delivered since
\* OPEN are those of a new layer over the same lower stream and method that
\* is read with one READ, whatever the lengths of the READs were and whether
\* or not the layer was closed and opened again before; and STAT reports
\* STORE exactly when the bytes delivered are the original ones. The lower
\* stream is one whose data all come with its first read (at most one byte),
\* so that it is the same stream in every run.
C37_SameStream ==
    (/\ layer.kind = "compress" /\ layer.ctx.end_of_stream
     /\ layer.ctx.error.zip_err = LIBZIP_ER_OK
     /\ Len(layer.plain) <= 1)
        => /\ layer.ctx.is_stored = CompressWhole(layer).ctx.is_stored
           /\ layer.delivered = CompressWhole(layer).delivered
           /\ CompressStatAfter.comp_method = LIBZIP_CM_STORE <=> layer.delivered = RawBytes(layer.plain)
           /\ CompressStatAfter.comp_method # LIBZIP_CM_STORE
                  => layer.delivered = CompressedBytes(0, layer.comp_size)


(* ---------------- C38: end of stream on the read layers ---------------- *)
NextReadLayers == NextWindow \/ NextCrc \/ NextCompress \/ NextAesDecode
SpecReadLayers == Init /\ [][NextReadLayers]_vars

\* the call just made was a READ of at least one byte on a window, compress
\* or decode layer that returned 0
LayerAtEnd ==
    /\ ret.op = "layer_call" /\ ret.cmd = "READ" /\ ret.n = 0
    /\ ret.kind \in {"window", "compress", "aes_decode"}

\* the same for the CRC layer
CrcAtEnd == ret.op = "source_call" /\ ret.cmd = "READ" /\ ret.n = 0

\* the position of a layer in its lower source
LowerPosition(l) ==
    CASE l.kind = "window" -> <<l.ctx.offset>>
      [] l.kind = "compress" -> <<l.lower_pos>>
      [] l.kind = "aes_decode" -> <<l.ctx.current_position, l.lower>>

AddResult(rv, err, za_entry, t) == [ret |-> rv, err |-> err, entry |-> za_entry, t |-> t]

\* the entries of an archive of nentry entries as _libzip_open leaves them:
\* their names are outside Names
OpenEntries(nentry) ==
    [i \in 1..nentry |-> [NewEntry EXCEPT !.orig = [_libzip_dirent_init EXCEPT !.filename = "o" \o ToString(i)]]]

\* _libzip_set_name for the entry idx that _libzip_add_entry has just made
\* (no orig, no changes, so no old name), on the table t of the name index;
\* result: [ret, err, entry, t]
_libzip_set_name_added(za_entry, t, idx, name, oom, oom_resize, garbage) ==
    Let(_libzip_name_locate(t.nodes, name, {}), LAMBDA i :
        IF i >= 0 /\ i # idx THEN AddResult(-1, LIBZIP_ER_EXISTS, za_entry, t)
        ELSE IF i >= 0 /\ i = idx THEN AddResult(0, LIBZIP_ER_OK, za_entry, t)
        ELSE IF oom = "clone" THEN AddResult(-1, LIBZIP_ER_MEMORY, za_entry, t)
        ELSE
        Let([za_entry[idx + 1] EXCEPT !.changes = _libzip_dirent_clone(NoDirent)], LAMBDA e1 :
        Let(_libzip_hash_add_sized(t, _libzip_string_get(name), idx, {}, oom = "hash", oom_resize, garbage),
            LAMBDA h1 :
                IF ~h1.ok THEN AddResult(-1, h1.err, [za_entry EXCEPT ![idx + 1] = e1], h1.t)
                ELSE AddResult(0, LIBZIP_ER_OK,
                         [za_entry EXCEPT ![idx + 1] = SetNameEntry(e1, name, FALSE)], h1.t))))

\* libzip_file_add without LIBZIP_FL_OVERWRITE on a writable archive:
\* _libzip_file_replace with idx = LIBZIP_UINT64_MAX; result: [ret, err, entry, t]
libzip_file_add_table(za_entry, t, name, source, oom, oom_resize, garbage) ==
    IF name = "" THEN AddResult(-1, LIBZIP_ER_INVAL, za_entry, t)
    ELSE
    Let(Len(za_entry), LAMBDA za_nentry_prev :
    Let(_libzip_set_name_added(_libzip_add_entry(za_entry), t, za_nentry_prev, name, oom, oom_resize, garbage),
        LAMBDA sn :
            IF sn.ret # 0
            THEN AddResult(-1, sn.err, RestoreNentry(sn.entry, za_nentry_prev), sn.t)
            ELSE AddResult(za_nentry_prev, LIBZIP_ER_OK,
                     AttachSource(sn.entry, sn.t.nodes, za_nentry_prev, source, oom).entry, sn.t)))

\* _libzip_open for an archive of nentry entries: the entries and the name
\* index
LibzipOpenTable(nentry) ==
    /\ ~open /\ ret.op = "none" /\ ~table.made
    /\ entry' = OpenEntries(nentry)
    /\ table' = OpenHashOthers(_libzip_hash_reserve_capacity(_libzip_hash_new, nentry, FALSE).t, nentry)
    /\ ret' = [op |-> "open_table", code |-> LIBZIP_ER_OK, nentry |-> nentry]
    /\ UNCHANGED <<open, ch_flags, names, comment, owner, crc_src, layer, progress, fs, cursor>>

\* libzip_file_add on that archive
LibzipFileAddTable(name, source, oom, oom_resize, garbage) ==
    /\ table.made /\ ret.op \in {"open_table", "file_add_table"}
    /\ \E r \in {libzip_file_add_table(entry, table, name, source, oom, oom_resize, garbage)} :
           /\ entry' = r.entry
           /\ table' = r.t
           /\ ret' = [op |-> "file_add_table", code |-> r.err, idx |-> r.ret, name |-> name,
                      oom |-> oom, oom_resize |-> oom_resize,
                      nentry_before |-> Len(entry), added_before |-> SubSeq(entry, table.orig_others + 1, Len(entry)),
                      nodes_before |-> table.nodes]
    /\ UNCHANGED <<open, ch_flags, names, comment, owner, crc_src, layer, progress, fs, cursor>>

OpenTable == \E nentry \in {0, 1, MaxOrig - 2} : LibzipOpenTable(nentry)

FileAddTable ==
    /\ table.made
    /\ \E name \in Names \cup {""}, oom \in {"none", "clone", "hash"},
          oom_resize \in BOOLEAN, garbage \in {NoIndex, 0} :
           LibzipFileAddTable(name, 1, oom, oom_resize, garbage)

NextAdd == OpenTable \/ FileAddTable
SpecAdd == Init /\ [][NextAdd]_vars

(* ---------------- C39: a failing file_add ---------------- *)
\* the two views of the name index: what _libzip_hash_lookup answers for
\* every name, for the current and for the unchanged archive
NameViews(nodes) ==
    [n \in Names |-> <<_libzip_hash_lookup(nodes, n, {}), _libzip_hash_lookup(nodes, n, {LIBZIP_FL_UNCHANGED})>>]

\* C39: after a file_add that failed, the number of entries, the entries
\* and both views of the name index are as they were before the call
C39_FailedAddNoEffect ==
    (ret.op = "file_add_table" /\ ret.idx < 0)
        => /\ Len(entry) = ret.nentry_before
           /\ SubSeq(entry, table.orig_others + 1, Len(entry)) = ret.added_before
           /\ \A i \in 1..table.orig_others : entry[i] = OpenEntries(table.orig_others)[i]
           /\ NameViews(table.nodes) = NameViews(ret.nodes_before)


(* ================= zip_dirent.c / zip_extra_field.c: the extra fields of a written header ================= *)
EF_WINLIBZIP_AES_SIZE == 7

LIBZIP_EF_BOTH == {LIBZIP_FL_LOCAL, LIBZIP_FL_CENTRAL}

\* an extra field of a list: the length of its data and the headers it goes into
ExtraField(size, flags) == [size |-> size, flags |-> flags]

\* the loop of _libzip_ef_size: size is a libzip_uint16_t
RECURSIVE EfSizeLoop(_, _, _)
EfSizeLoop(ef, flags, size) ==
    IF ef = <<>> THEN size
    ELSE EfSizeLoop(Tail(ef), flags,
             IF Head(ef).flags \cap flags \cap LIBZIP_EF_BOTH # {}
             THEN (size + 4 + Head(ef).size) % 65536 ELSE size)

_libzip_ef_size(ef, flags) == EfSizeLoop(ef, flags, 0)

\* the number of bytes _libzip_ef_write hands to _libzip_write, every write
\* succeeding
RECURSIVE _libzip_ef_write(_, _)
_libzip_ef_write(ef, flags) ==
    IF ef = <<>> THEN 0
    ELSE (IF Head(ef).flags \cap flags \cap LIBZIP_EF_BOTH # {} THEN 4 + Head(ef).size ELSE 0)
         + _libzip_ef_write(Tail(ef), flags)

\* _libzip_ef_utf8 for a string of len bytes: the field, or none if the
\* string is not UTF-8 (len < 0)
_libzip_ef_utf8(len) == IF len < 0 THEN <<>> ELSE <<ExtraField(len + 5, LIBZIP_EF_BOTH)>>

\* the list ef that _libzip_dirent_write builds: the WinZip AES field, the
\* ZIP64 field, the UTF-8 comment (central header only) and the UTF-8 name
GeneratedFields(de, flags, is_winlibzip_aes, name_len, comment_len) ==
    (IF is_winlibzip_aes THEN <<ExtraField(EF_WINLIBZIP_AES_SIZE, LIBZIP_EF_BOTH)>> ELSE <<>>)
    \o (IF _libzip_dirent_write(de, flags).has_ef64
        THEN <<ExtraField(8 * Len(_libzip_dirent_write(de, flags).ef64), LIBZIP_EF_BOTH)>> ELSE <<>>)
    \o (IF LIBZIP_FL_LOCAL \notin flags THEN _libzip_ef_utf8(comment_len) ELSE <<>>)
    \o _libzip_ef_utf8(name_len)

\* ef_total_size as _libzip_buffer_put_16 stores it
EfTotalSize(ef, extra_fields, flags, torrentzip) ==
    (_libzip_ef_size(ef, LIBZIP_EF_BOTH) + (IF torrentzip THEN 0 ELSE _libzip_ef_size(extra_fields, flags)))
        % 65536

\* the extra-field part of _libzip_dirent_write, every allocation and write
\* succeeding: the length put into the header, the bytes written after it,
\* the return value
_libzip_dirent_write_ef(de, flags, is_winlibzip_aes, name_len, comment_len, extra_fields, torrentzip) ==
    Let(GeneratedFields(de, flags, is_winlibzip_aes, name_len, comment_len), LAMBDA ef :
        [ef_len |-> EfTotalSize(ef, extra_fields, flags, torrentzip),
         written |-> _libzip_ef_write(ef, LIBZIP_EF_BOTH)
                     + (IF torrentzip THEN 0 ELSE _libzip_ef_write(extra_fields, flags)),
         generated |-> _libzip_ef_write(ef, LIBZIP_EF_BOTH),
         ret |-> _libzip_dirent_write(de, flags).ret])

\* the most extra fields an entry has of its own
MaxUserFields == 2

\* lengths of the data of the extra fields an entry has: none, a little, and
\* what fills a header to 20 bytes below the limit and to the limit
EfSizes == {0, 8, 65511, 65531}

\* the extra fields of an entry: for a local and for a central header they
\* take at most 65535 bytes, as libzip_file_extra_field_set and the 16-bit
\* length of a header that was read see to
UserFields ==
    {ef \in SeqsUpTo([size : EfSizes, flags : {{LIBZIP_FL_LOCAL}, {LIBZIP_FL_CENTRAL}, LIBZIP_EF_BOTH}], MaxUserFields) :
        /\ _libzip_ef_write(ef, {LIBZIP_FL_LOCAL}) <= LIBZIP_UINT16_MAX
        /\ _libzip_ef_write(ef, {LIBZIP_FL_CENTRAL}) <= LIBZIP_UINT16_MAX}

\* sizes below and above the ZIP64 threshold
EfDirents == {de \in WriteDirents : de.uncomp_size = <<0, 5>> /\ de.offset = <<0, 5>>
                                    /\ de.comp_size \in {<<0, 5>>, <<65536, 0>>}}

\* _libzip_dirent_write called for one header of an entry with extra fields
LibzipDirentWriteEf(de, flags, is_winlibzip_aes, name_len, comment_len, extra_fields, torrentzip) ==
    /\ ~open
    /\ ret.op = "none"
    /\ ret' = [op |-> "dirent_write_ef", code |-> LIBZIP_ER_OK, flags |-> flags,
               extra_fields |-> extra_fields, torrentzip |-> torrentzip,
               hdr |-> _libzip_dirent_write_ef(de, flags, is_winlibzip_aes, name_len, comment_len,
                                               extra_fields, torrentzip)]
    /\ UNCHANGED <<cursor, table, layer, progress, fs, crc_src, open, ch_flags, entry, names, comment, owner>>

DirentWriteEf ==
    /\ ret.op = "none"
    /\ \E de \in EfDirents, flags \in WriteFlagSets, is_winlibzip_aes \in BOOLEAN,
          name_len \in {-1, 1}, comment_len \in {-1, 1}, extra_fields \in UserFields,
          torrentzip \in BOOLEAN :
           LibzipDirentWriteEf(de, flags, is_winlibzip_aes, name_len, comment_len, extra_fields, torrentzip)

NextWriteEf == DirentWriteEf
SpecWriteEf == Init /\ [][NextWriteEf]_vars

(* ---------------- C40: the extra-field length of a written header ---------------- *)
\* C40: the extra-field length recorded in a header that was written is the
\* number of extra-field bytes written after it; a header whose extra
\* fields take more than 65,535 bytes is not written
C40_LengthMatches ==
    (ret.op = "dirent_write_ef" /\ ret.hdr.ret >= 0) => ret.hdr.ef_len = ret.hdr.written

====
